---- MODULE Spec2Model ----
(***************************************************************************)
(* The charm-generation pipeline of beuken-workers: handleCreateCharm      *)
(* (handlers/createCharm.ts) with the services it awaits, one action per   *)
(* resumption of the handler after an await.  A second specification,      *)
(* SpecIndex, models the handleCreateCharm of src/index.ts; SpecSynth,     *)
(* SpecLocal and SpecParse run generateGoldImage, resizeAndGrayscaleTo1024 *)
(* and parseJsonFromContent alone, over bounded sets of inputs.            *)
(*                                                                         *)
(* A string is a sequence of chunks: the chunk " " is one whitespace       *)
(* character, every other chunk is a non-empty run of non-whitespace text. *)
(* Template literals are concatenations (\o) of chunks.                    *)
(***************************************************************************)
EXTENDS Integers, Sequences, FiniteSets, TLC

VARIABLES
    handler,              \* which handleCreateCharm serves the request
    pc,                   \* the await the handler is suspended at
    now,                  \* Date.now()
    req,                  \* the multipart request
    bucket,               \* env.USER_UPLOADS_BUCKET is bound
    uuids,                \* crypto.randomUUID() calls so far
    r2calls,              \* the calls of uploadImageToR2, in order
    originalImageUrl,
    grayscale1024Base64,  \* the working image
    visionInputKind,
    visionCall,           \* how the vision call ended
    visionResult,         \* the Description
    nameAndStory,
    finalPrompt,          \* generateGoldImage: the prompt of the request body
    attempt,              \* retryWithBackoff: the loop index
    wake,                 \* retryWithBackoff: when the backoff timer fires
    synth,                \* the synthesis attempts, in order
    goldImageUrl,
    fetches,              \* convertToGreyscale: the byte sources requested
    grayscaleArrayBuffer,
    silverImageUrl,
    response,             \* the Response returned to the router
    inflight,             \* the stages with a call outstanding
    events,               \* stage calls and returns, in order
    calls,                \* the external calls issued, in order
    marks,                \* the timestamps the handler records
    local,                \* resizeAndGrayscaleTo1024: its locals and one probed pixel
    parse,                \* parseJsonFromContent applied to three renderings of an object
    transform,            \* how the fetch of the transform URL ended
    route,                \* the fetch handler of index.ts: the request and its response
    built,                \* buildCloudflareImageTransformUrl: the options and the URL
    retry,                \* retryWithBackoff called with any maxRetries and baseDelay
    abort,                \* the abort timers of the vision call and the synthesis attempts
    pair,                 \* two invocations of handleCreateCharm on one event loop
    passed,               \* the arguments handleCreateCharm passes to the stages
    shop,                 \* createShopifyProduct: its calls and its result
    resize                \* bilinearResize: the sizes and the samples of one output pixel

vars == <<handler, pc, now, req, bucket, uuids, r2calls, originalImageUrl,
          grayscale1024Base64, visionInputKind, visionCall, visionResult, nameAndStory,
          finalPrompt, attempt, wake, synth, goldImageUrl, fetches,
          grayscaleArrayBuffer, silverImageUrl, response, inflight, events, calls, marks,
          local, parse, transform, route, built, retry, abort, pair, passed, shop,
          resize>>

envVars == <<handler, req, bucket>>
storeVars == <<uuids, r2calls>>
preVars == <<originalImageUrl, grayscale1024Base64, visionInputKind>>
visionVars == <<visionCall, visionResult, nameAndStory>>
goldVars == <<finalPrompt, attempt, wake, synth, goldImageUrl>>
silverVars == <<fetches, grayscaleArrayBuffer, silverImageUrl>>
pureVars == <<local, parse>>
soloVars == <<built, retry, abort, pair>>
moreVars == <<shop, resize>>

(***************************************************************************)
(* Bounds of the model.                                                    *)
(***************************************************************************)
T0 == 7          \* Date.now() when the request arrives
MaxJitter == 1   \* how late a timer may fire

(***************************************************************************)
(* Strings.                                                                *)
(***************************************************************************)
RECURSIVE TrimStart(_)
TrimStart(s) == IF s # <<>> /\ Head(s) = " " THEN TrimStart(Tail(s)) ELSE s

RECURSIVE TrimEnd(_)
TrimEnd(s) ==
    IF s # <<>> /\ s[Len(s)] = " " THEN TrimEnd(SubSeq(s, 1, Len(s) - 1)) ELSE s

Trim(s) == TrimEnd(TrimStart(s))

Contains(s, sub) ==
    \E i \in 0..(Len(s) - Len(sub)) : SubSeq(s, i + 1, i + Len(sub)) = sub

EndsWith(s, suf) ==
    Len(suf) <= Len(s) /\ SubSeq(s, Len(s) - Len(suf) + 1, Len(s)) = suf

(***************************************************************************)
(* JavaScript values that JSON can carry into a Description field.         *)
(***************************************************************************)
JStr(s) == [t |-> "string", v |-> s]
JNum(s) == [t |-> "number", v |-> s]
JUndefined == [t |-> "undefined", v |-> <<>>]
JNull == [t |-> "null", v |-> <<>>]
JArr(s) == [t |-> "array", v |-> s]

Truthy(x) ==
    \/ x.t = "string" /\ x.v # <<>>
    \/ x.t = "number" /\ x.v # <<"0">>
    \/ x.t = "array"

OrElse(x, d) == IF Truthy(x) THEN x ELSE d

NoUrl == <<"(none)">>
NoResponse == [status |-> 0, success |-> FALSE, error |-> <<>>, details |-> <<>>,
               from |-> "",
               goldImageUrl |-> NoUrl, silverImageUrl |-> NoUrl, story |-> JUndefined,
               totalTimeMs |-> 0, breakdown |-> <<>>]

(***************************************************************************)
(* JSON text.  A member chunk stands for one "key": value pair of an       *)
(* object (with its separator), a scalar chunk for one JSON literal.       *)
(***************************************************************************)
TheDefaultName == <<"Custom", " ", "Charm">>
TheDefaultStory == <<"A", " ", "beautiful", " ", "memory">>
TheDefaultPrompt == <<"Convert", " ", "the", " ", "input", " ", "image">>
LionPrompt == <<"Convert", " ", "this", " ", "image", " ", "of", " ", "a", " ", "lion">>

MemberChunks == {"name:Lion", "name:empty", "story:Brave", "prompt:Lion",
                 "prompt:42", "prompt:blank", "prompt:empty", "prompt:null", "prompt:[]"}
ScalarChunks == {"42", "null"}
WordChunks == {"json", "Here", "42", "null", "js"}   \* chunks of letters, digits, _ and -
Fence == "~~~"                                \* the chunk of three backquotes

MemberKey(c) ==
    CASE c \in {"name:Lion", "name:empty"} -> "productName"
      [] c = "story:Brave" -> "story"
      [] OTHER -> "prompt"

MemberVal(c) ==
    CASE c = "name:Lion" -> JStr(<<"Lion", " ", "Heart">>)
      [] c = "name:empty" -> JStr(<<>>)
      [] c = "story:Brave" -> JStr(<<"Brave", " ", "lion">>)
      [] c = "prompt:Lion" -> JStr(LionPrompt)
      [] c = "prompt:42" -> JNum(<<"42">>)
      [] c = "prompt:blank" -> JStr(<<" ", " ">>)
      [] c = "prompt:empty" -> JStr(<<>>)
      [] c = "prompt:[]" -> JArr(<<>>)
      [] OTHER -> JNull

NotParsed == [ok |-> FALSE, kind |-> "none", productName |-> JUndefined,
              story |-> JUndefined, prompt |-> JUndefined]

\* the property of a parsed object: the last member with that key wins
RECURSIVE Field(_, _)
Field(ms, key) ==
    IF ms = <<>> THEN JUndefined
    ELSE IF MemberKey(ms[Len(ms)]) = key THEN MemberVal(ms[Len(ms)])
    ELSE Field(SubSeq(ms, 1, Len(ms) - 1), key)

AllIn(s, S) == \A i \in 1..Len(s) : s[i] \in S

\* JSON.parse: whitespace between tokens is insignificant
JSONParse(s) ==
    LET t == SelectSeq(s, LAMBDA c : c # " ")
        n == Len(t)
        inner == SubSeq(t, 2, n - 1)
    IN  IF n >= 2 /\ t[1] = "{" /\ t[n] = "}" /\ AllIn(inner, MemberChunks)
        THEN [ok |-> TRUE, kind |-> "object",
              productName |-> Field(inner, "productName"),
              story |-> Field(inner, "story"),
              prompt |-> Field(inner, "prompt")]
        ELSE IF n >= 2 /\ t[1] = "[" /\ t[n] = "]" /\ AllIn(inner, ScalarChunks)
        THEN [NotParsed EXCEPT !.ok = TRUE, !.kind = "array"]
        ELSE IF n = 1 /\ t[1] \in ScalarChunks
        THEN [NotParsed EXCEPT !.ok = TRUE, !.kind = IF t[1] = "null" THEN "null" ELSE "number"]
        ELSE NotParsed

IndexOf(s, c) ==
    IF \E i \in 1..Len(s) : s[i] = c
    THEN CHOOSE i \in 1..Len(s) : s[i] = c /\ \A j \in 1..(i - 1) : s[j] # c
    ELSE 0

LastIndexOf(s, c) ==
    IF \E i \in 1..Len(s) : s[i] = c
    THEN CHOOSE i \in 1..Len(s) : s[i] = c /\ \A j \in (i + 1)..Len(s) : s[j] # c
    ELSE 0

RECURSIVE DropWhile(_, _)
DropWhile(s, S) == IF s # <<>> /\ Head(s) \in S THEN DropWhile(Tail(s), S) ELSE s

\* strategy 2: strip an opening fence with its language tag, and a closing fence
StripOpeningFence(s) ==
    IF s # <<>> /\ Head(s) = Fence
    THEN DropWhile(DropWhile(Tail(s), WordChunks), {" "})
    ELSE s

StripClosingFence(s) ==
    LET e == TrimEnd(s)
    IN  IF e # <<>> /\ e[Len(e)] = Fence THEN TrimEnd(SubSeq(e, 1, Len(e) - 1)) ELSE s

WithoutFences(raw) == Trim(StripClosingFence(StripOpeningFence(raw)))

\* mutant: the slice stops before the closing brace
ObjectSubstring_ExcludesBrace(raw) ==
    LET a == IndexOf(raw, "{")
        b == LastIndexOf(raw, "}")
    IN  IF a # 0 /\ b # 0 /\ b > a THEN JSONParse(SubSeq(raw, a, b - 1)) ELSE NotParsed

ObjectSubstring(raw) ==
    LET a == IndexOf(raw, "{")
        b == LastIndexOf(raw, "}")
    IN  IF a # 0 /\ b # 0 /\ b > a THEN JSONParse(SubSeq(raw, a, b)) ELSE NotParsed

ArraySubstring(raw) ==
    LET a == IndexOf(raw, "[")
        b == LastIndexOf(raw, "]")
    IN  IF a # 0 /\ b # 0 /\ b > a THEN JSONParse(SubSeq(raw, a, b)) ELSE NotParsed

\* mutant: the array substring is tried before the object substring
ParseStrategy_ArrayBeforeObject(content) ==
    LET raw == Trim(content)
    IN  IF JSONParse(raw).ok THEN 1
        ELSE IF JSONParse(WithoutFences(raw)).ok THEN 2
        ELSE IF ArraySubstring(raw).ok THEN 4
        ELSE IF ObjectSubstring(raw).ok THEN 3
        ELSE 0

\* the strategy of parseJsonFromContent that yields the value: 1..4, or 0 when it throws
ParseStrategy(content) ==
    LET raw == Trim(content)
    IN  IF JSONParse(raw).ok THEN 1
        ELSE IF JSONParse(WithoutFences(raw)).ok THEN 2
        ELSE IF ObjectSubstring(raw).ok THEN 3
        ELSE IF ArraySubstring(raw).ok THEN 4
        ELSE 0

\* .ok = FALSE: throws Error(Unable to parse JSON from Groq content)
parseJsonFromContent(content) ==
    LET raw == Trim(content)
    IN  CASE ParseStrategy(content) = 1 -> JSONParse(raw)
          [] ParseStrategy(content) = 2 -> JSONParse(WithoutFences(raw))
          [] ParseStrategy(content) = 3 -> ObjectSubstring(raw)
          [] ParseStrategy(content) = 4 -> ArraySubstring(raw)
          [] OTHER -> NotParsed

\* the serializations of JSON objects the calls below are made with
MemberSeqs == {<<>>, <<"name:Lion">>, <<"story:Brave", " ", "prompt:Lion">>,
               <<"name:Lion", "story:Brave", "prompt:Lion">>,
               <<" ", "name:empty", " ", "prompt:null", " ">>, <<"prompt:42", "prompt:[]">>}
Objects == {<<"{">> \o m \o <<"}">> : m \in MemberSeqs}

Labels == {"json", "js"}

\* prose before or after the object; the last two carry a brace of their own
Prose == {<<>>, <<"Here", " ">>, <<" ", "Here", " ", "42">>,
          <<"Here", " ", "{", "json", "}", " ">>, <<" ", "}">>}

HasBrace(s) == \E i \in 1..Len(s) : s[i] \in {"{", "}"}

\* the object inside a labeled code fence, each on a line of its own
Fenced(label, object) == <<Fence, label, " ">> \o object \o <<" ", Fence>>

NoParse == [step |-> 0, object |-> <<>>, label |-> "", lead |-> <<>>, trail |-> <<>>,
            bare |-> NotParsed, fenced |-> NotParsed, prose |-> NotParsed,
            content |-> <<>>, strategy |-> 0, result |-> NotParsed]

(***************************************************************************)
(* services/storage/r2.ts                                                  *)
(***************************************************************************)
\* mutant: randomUUID returns the same value every time
UUID_Constant(n) == <<"uuid", "0">>

UUID(n) == <<"uuid", ToString(n)>>

PublicUrl(filename) == <<"https://pub-a60a2e7f4821493380ef9f646ab6b33c.r2.dev/">> \o filename
\* mutant: the mock URL leaves the filename out
PlaceholderUrl_NoFilename(filename) == <<"https://storage.example.com/uploads/">>

PlaceholderUrl(filename) == <<"https://storage.example.com/uploads/">> \o filename

\* mutant: the catch rethrows
UploadCatch_Rethrows(filename) == [threw |-> TRUE, url |-> PlaceholderUrl(filename)]

\* the catch of uploadImageToR2: a failed put is answered with the mock URL
UploadCatch(filename) == [threw |-> FALSE, url |-> PlaceholderUrl(filename)]

\* putOk: whether bucket.put resolves; typeMetadata "" when the option is absent
uploadImageToR2(imageBuffer, filename, typeMetadata, bound, putOk) ==
    LET type == IF typeMetadata # "" THEN typeMetadata ELSE "image"
        base == [filename |-> filename, bytes |-> imageBuffer, type |-> type]
    IN  IF ~bound
        THEN base @@ [put |-> "none", threw |-> FALSE, url |-> PlaceholderUrl(filename)]
        ELSE IF putOk
        THEN base @@ [put |-> "ok", threw |-> FALSE, url |-> PublicUrl(filename)]
        ELSE base @@ [put |-> "failed"] @@ UploadCatch(filename)

PutOutcomes == IF bucket THEN BOOLEAN ELSE {TRUE}

(***************************************************************************)
(* services/ai/groqVision.ts                                               *)
(***************************************************************************)
VisionTimeoutMs == 15000

DefaultDescription == [productName |-> JStr(TheDefaultName), story |-> JStr(TheDefaultStory),
                       prompt |-> JStr(TheDefaultPrompt)]

FullObject == <<"{", "name:Lion", "story:Brave", "prompt:Lion", "}">>

VisionContents == {
    FullObject,
    <<Fence, "json", " ", "{", "name:Lion", "story:Brave", "prompt:Lion", "}", " ", Fence>>,
    <<"{", "name:empty", "prompt:42", "}">>,
    <<"{", "story:Brave", "prompt:blank", "}">>,
    <<"{", "name:Lion", "story:Brave", "prompt:[]", "}">>,
    <<"null">>,
    <<"Here", " ", "{", "Here">>,
    <<"undefined">> }

\* how the call can end: the abort timer fires, fetch rejects, a non-2xx status,
\* a body that is no JSON, or a completion with the given message content
VisionOutcomes ==
    [kind : {"timeout", "transport", "status", "badjson"}, content : {<<>>}]
    \cup [kind : {"content"}, content : VisionContents]

VisionFailed(o) == o.kind # "content" \/ ~parseJsonFromContent(o.content).ok

\* mutant: the catch rethrows
VisionCatch_Rethrows == [threw |-> TRUE, value |-> DefaultDescription]

\* the catch of generateGroqVisionPrompt
VisionCatch == [threw |-> FALSE, value |-> DefaultDescription]

generateGroqVisionPrompt(o) ==
    LET parsed == parseJsonFromContent(o.content)
    IN  IF VisionFailed(o) THEN VisionCatch
        ELSE [threw |-> FALSE,
              value |-> [productName |-> OrElse(parsed.productName, JStr(TheDefaultName)),
                         story |-> OrElse(parsed.story, JStr(TheDefaultStory)),
                         prompt |-> OrElse(parsed.prompt, JStr(TheDefaultPrompt))]]

(***************************************************************************)
(* utils/retry.ts                                                          *)
(***************************************************************************)
RECURSIVE Pow2(_)
Pow2(n) == IF n = 0 THEN 1 ELSE 2 * Pow2(n - 1)

DefaultBaseDelay == 1000

\* after a failed attempt: rethrow on the last one, else sleep and loop
\* mutant: the catch never rethrows, the loop bound alone ends the retries
RetryExhausted_Never(att, maxRetries) == FALSE

\* mutant: one attempt more before the rethrow
RetryExhausted_OneMore(att, maxRetries) == att = maxRetries + 1

RetryExhausted(att, maxRetries) == att = maxRetries

\* mutant: a product in place of the power, so no wait before the first retry
BackoffDelay_Linear(att, baseDelay) == baseDelay * att

BackoffDelay(att, baseDelay) == baseDelay * Pow2(att)

(***************************************************************************)
(* services/ai/fal.ts: generateGoldImage                                   *)
(***************************************************************************)
GoldMaxRetries == 1
SynthTimeoutMs == 90000

\* mutant: the trimmed instruction is sent
ResolvePrompt_Trimmed(prompt) ==
    IF prompt.t = "string" /\ Len(Trim(prompt.v)) > 0 THEN Trim(prompt.v) ELSE TheDefaultPrompt

\* prompt is a string here; JUndefined stands for a missing argument
ResolvePrompt(prompt) ==
    IF prompt.t = "string" /\ Len(Trim(prompt.v)) > 0 THEN prompt.v ELSE TheDefaultPrompt

GoldUrl == <<"https://fal.media/files/gold.jpg">>
Bodies == {<<"overloaded">>, <<"bad", " ", "gateway">>, <<>>}

\* how one attempt can end
SynthOutcomes ==
    [kind : {"ok"}, status : {"200"}, body : {<<>>}, url : {GoldUrl, <<>>}]
    \cup [kind : {"status"}, status : {"500"}, body : Bodies, url : {<<>>}]
    \cup [kind : {"timeout", "transport", "malformed"}, status : {""}, body : {<<>>}, url : {<<>>}]

\* mutant: the message carries the status alone
SynthErrorMessage_StatusOnly(o) ==
    <<"Qwen", " ", "Image", " ", "Edit", " ", "LoRA", " ", "API", " ", "error:", " ">>
    \o <<o.status>>

SynthErrorMessage(o) ==
    CASE o.kind = "status" ->
            <<"Qwen", " ", "Image", " ", "Edit", " ", "LoRA", " ", "API", " ", "error:", " ">>
            \o <<o.status>> \o <<" ", "-", " ">> \o o.body
      [] o.kind = "timeout" -> <<"The", " ", "operation", " ", "was", " ", "aborted">>
      [] o.kind = "transport" -> <<"Network", " ", "connection", " ", "lost.">>
      [] OTHER -> <<"Cannot", " ", "read", " ", "properties", " ", "of", " ", "undefined">>

SynthElapsed(o) == IF o.kind = "timeout" THEN SynthTimeoutMs ELSE 1

\* the request body of one attempt
SynthRequest(image, prompt, t) ==
    [image |-> image, prompt |-> prompt, issuedAt |-> t, endedAt |-> 0, outcome |-> "pending",
     status |-> "", body |-> <<>>]

(***************************************************************************)
(* services/ai/fal.ts: convertToGreyscale                                  *)
(***************************************************************************)
TransformationUrl(gold) ==
    <<"https://api.beuken.ai/cdn-cgi/image/saturation=0,format=jpeg/">> \o gold

\* mutant: the last source asks the transformation endpoint again
SilverSource_ThirdTransformed(k, gold) ==
    CASE k = 1 -> [source |-> 1, url |-> TransformationUrl(gold), cf |-> "", bytes |-> "transformed"]
      [] k = 2 -> [source |-> 2, url |-> gold, cf |-> "saturation=0,format=jpeg", bytes |-> "cf-image"]
      [] OTHER -> [source |-> 3, url |-> TransformationUrl(gold), cf |-> "", bytes |-> "transformed"]

\* the k-th byte source: its URL, its fetch option, the bytes it yields
SilverSource(k, gold) ==
    CASE k = 1 -> [source |-> 1, url |-> TransformationUrl(gold), cf |-> "", bytes |-> "transformed"]
      [] k = 2 -> [source |-> 2, url |-> gold, cf |-> "saturation=0,format=jpeg", bytes |-> "cf-image"]
      [] OTHER -> [source |-> 3, url |-> gold, cf |-> "", bytes |-> "gold-bytes"]

\* mutant: the fetch-option source is skipped
NextSource_SkipsOption(k) == IF k = 1 THEN 3 ELSE 0

\* the source tried after source k failed; 0: the inner chain is exhausted
NextSource(k) == IF k < 3 THEN k + 1 ELSE 0

SilverFilename(n) == UUID(n) \o <<"-silver.jpg">>

\* mutant: the outer catch rethrows
SilverCatch_Rethrows(gold) == [threw |-> TRUE, url |-> gold]

\* the outer catch: the gold URL is the result
SilverCatch(gold) == [threw |-> FALSE, url |-> gold]

\* mutant: a failed put is answered with the gold URL
SilverReturn_GoldOnFailedPut(call, gold) ==
    IF call.threw \/ call.put = "failed" THEN SilverCatch(gold)
    ELSE [threw |-> FALSE, url |-> call.url]

\* what convertToGreyscale returns once uploadImageToR2 has answered
SilverReturn(call, gold) == IF call.threw THEN SilverCatch(gold) ELSE [threw |-> FALSE, url |-> call.url]

(***************************************************************************)
(* services/cloudflare/imageTransform.ts.  An option is JUndefined when it *)
(* is not supplied, a number or a string otherwise.                        *)
(***************************************************************************)
TransformBase == <<"https://api.beuken.ai/cdn-cgi/image/">>

\* Array.prototype.join
RECURSIVE Join(_, _)
Join(parts, sep) ==
    IF parts = <<>> THEN <<>>
    ELSE IF Len(parts) = 1 THEN parts[1]
    ELSE parts[1] \o sep \o Join(Tail(parts), sep)

\* typeof x === 'number'
IsNumber(x) == x.t = "number"

\* one push of lines 225-230, made or not
Part(emitted, name, x) == IF emitted THEN <<<<name>> \o x.v>> ELSE <<>>

\* mutant: the numeric options are tested by truthiness, as the others are
buildCloudflareImageTransformUrl_DropsZero(inputUrl, options) ==
    TransformBase
    \o Join(Part(Truthy(options.saturation), "saturation=", options.saturation)
            \o Part(Truthy(options.width), "width=", options.width)
            \o Part(Truthy(options.height), "height=", options.height)
            \o Part(Truthy(options.fit), "fit=", options.fit)
            \o Part(Truthy(options.background), "background=", options.background)
            \o Part(Truthy(options.format), "format=", options.format), <<",">>)
    \o <<"/">> \o inputUrl

buildCloudflareImageTransformUrl(inputUrl, options) ==
    TransformBase
    \o Join(Part(IsNumber(options.saturation), "saturation=", options.saturation)
            \o Part(IsNumber(options.width), "width=", options.width)
            \o Part(IsNumber(options.height), "height=", options.height)
            \o Part(Truthy(options.fit), "fit=", options.fit)
            \o Part(Truthy(options.background), "background=", options.background)
            \o Part(Truthy(options.format), "format=", options.format), <<",">>)
    \o <<"/">> \o inputUrl

\* the options handleCreateCharm passes (createCharm.ts 66-73)
HandlerOptions == [saturation |-> JNum(<<"0">>), width |-> JNum(<<"1024">>),
                   height |-> JNum(<<"1024">>), fit |-> JStr(<<"pad">>),
                   background |-> JStr(<<"white">>), format |-> JStr(<<"jpeg">>)]

\* the options the function is called with below
OptionSets == [saturation : {JUndefined, JNum(<<"0">>), JNum(<<"50">>)},
               width : {JUndefined, JNum(<<"1024">>)},
               height : {JUndefined, JNum(<<"1024">>)},
               fit : {JUndefined, JStr(<<"pad">>)},
               background : {JUndefined, JStr(<<>>), JStr(<<"white">>)},
               format : {JUndefined, JStr(<<"jpeg">>)}]

NoBuilt == [step |-> 0, inputUrl |-> <<>>, options |-> HandlerOptions, url |-> <<>>]

(***************************************************************************)
(* services/images/localFallback.ts.  A pixel is <<r, g, b, a>>; the       *)
(* canvas finalData is followed at one probed pixel, given by its index    *)
(* py * targetSize + px.  The products with 0.299, 0.587 and 0.114 are     *)
(* taken over the integers, in thousandths.                                *)
(***************************************************************************)
TargetSize == 1024
MaxSide == 4     \* the decoded width and height range over 1..MaxSide

White == <<255, 255, 255, 255>>
\* the grey levels tried: every fifth one and the neighbours of the ends and the middle
GreyLevels == {v \in 0..255 : v % 5 = 0} \cup {1, 127, 128, 254}

Colours ==
    {<<0, 0, 0, 255>>, <<255, 0, 0, 128>>, <<12, 200, 31, 0>>, <<255, 255, 254, 255>>}
    \cup {<<v, v, v, 255>> : v \in GreyLevels} \cup {<<77, 77, 77, 0>>}

\* what the bytes of the upload decode to; width 0: the decoder throws
Images == [width : 1..MaxSide, height : 1..MaxSide] \cup {[width |-> 0, height |-> 0]}

\* Math.round(a / b) for a >= 0, b > 0: halves go up
RoundDiv(a, b) == (2 * a + b) \div (2 * b)

\* lines 72-83: the longer side becomes targetSize
ScaledSize(width, height) ==
    IF width > height
    THEN [scaledWidth |-> TargetSize, scaledHeight |-> RoundDiv(TargetSize * height, width)]
    ELSE [scaledWidth |-> RoundDiv(TargetSize * width, height), scaledHeight |-> TargetSize]

\* mutant: the offset is rounded up
Offset_Ceil(scaled) == (TargetSize - scaled + 1) \div 2

\* lines 103-104: Math.floor((targetSize - scaled) / 2)
Offset(scaled) == (TargetSize - scaled) \div 2

\* lines 106-116: the copy loop writes the pixel of index i, that is, some row y of
\* the resized image has its pixel x = i - (y + offsetY) * targetSize - offsetX
Written(i, sw, sh, ox, oy) ==
    \E y \in 0..(sh - 1) : (i - (y + oy) * TargetSize - ox) \in 0..(sw - 1)

\* mutant: the plain mean of the three channels
Luma_Average(r, g, b) == (r + g + b) \div 3

\* mutant: the weights cut to two digits, 0.29, 0.58 and 0.11
Luma_TwoDigits(r, g, b) == RoundDiv(29 * r + 58 * g + 11 * b, 100)

\* line 124: Math.round(0.299 * r + 0.587 * g + 0.114 * b)
Luma(r, g, b) == RoundDiv(299 * r + 587 * g + 114 * b, 1000)

\* lines 119-128: the three colour channels become the luma, alpha stays
Greyscale(p) == <<Luma(p[1], p[2], p[3]), Luma(p[1], p[2], p[3]), Luma(p[1], p[2], p[3]), p[4]>>

\* where the try block of resizeAndGrayscaleTo1024 can throw
LocalThrows == {"none", "decode", "resize", "encode"}

\* mutant: the catch rethrows
LocalCatch_Rethrows == [threw |-> TRUE, base64 |-> "none"]

\* the catch: the original bytes as base64, not resized
LocalCatch == [threw |-> FALSE, base64 |-> "original-base64"]

resizeAndGrayscaleTo1024(thrownAt) ==
    IF thrownAt = "none" THEN [threw |-> FALSE, base64 |-> "local-1024"] ELSE LocalCatch

NoLocal == [step |-> "idle", image |-> [width |-> 0, height |-> 0], thrownAt |-> "none",
            scaledWidth |-> 0, scaledHeight |-> 0, offsetX |-> 0, offsetY |-> 0,
            canvasPixels |-> 0, px |-> 0, py |-> 0, covered |-> FALSE,
            before |-> <<0, 0, 0, 0>>, after |-> <<0, 0, 0, 0>>,
            encodedWidth |-> 0, encodedHeight |-> 0, base64 |-> "none"]

NoRoute == [state |-> "none", method |-> "", path |-> "", invoked |-> FALSE,
            status |-> 0, headers |-> {}, caught |-> FALSE]
NoRetry == [state |-> "none"]
NoAbort == [state |-> "none"]
NoPair == <<>>
NoShop == [state |-> "none"]
NoResize == [step |-> "none"]

\* nothing passed yet: no stage has been called
NoPassed == [vision |-> "none", goldImage |-> "none", goldPrompt |-> JUndefined]

(***************************************************************************)
(* handlers/createCharm.ts                                                 *)
(***************************************************************************)
Requests == {
    [image |-> "", email |-> <<"a@b.c">>, story |-> <<>>],
    [image |-> "image/jpeg", email |-> <<>>, story |-> <<>>],
    [image |-> "image/jpeg", email |-> <<"a@b.c">>, story |-> <<>>],
    [image |-> "image/png", email |-> <<"a@b.c">>, story |-> <<"my", " ", "story">>] }

NoMarks == [startTime |-> 0, fileProcessingStart |-> 0, aiProcessingStart |-> 0,
            finalOpsStart |-> 0, finalOpsEnd |-> 0]
NoDescription == [productName |-> JUndefined, story |-> JUndefined, prompt |-> JUndefined]
NoVisionCall == [kind |-> "none", content |-> <<>>]

\* handleCreateCharm has been called: line 11, up to await request.formData()
InitCreateCharm ==
    /\ handler = "createCharm"
    /\ pc = "formData"
    /\ now = T0
    /\ req \in Requests
    /\ bucket \in BOOLEAN
    /\ uuids = 0
    /\ r2calls = <<>>
    /\ originalImageUrl = NoUrl
    /\ grayscale1024Base64 = "none"
    /\ visionInputKind = "none"
    /\ visionCall = NoVisionCall
    /\ visionResult = NoDescription
    /\ nameAndStory = [productName |-> JUndefined, story |-> JUndefined]
    /\ finalPrompt = <<>>
    /\ attempt = 0
    /\ wake = 0
    /\ synth = <<>>
    /\ goldImageUrl = NoUrl
    /\ fetches = <<>>
    /\ grayscaleArrayBuffer = "none"
    /\ silverImageUrl = NoUrl
    /\ response = NoResponse
    /\ inflight = {}
    /\ events = <<>>
    /\ calls = <<"formData">>
    /\ marks = [NoMarks EXCEPT !.startTime = T0]
    /\ transform = "none"
    /\ passed = NoPassed
    /\ built = NoBuilt
    /\ retry = NoRetry
    /\ abort = NoAbort
    /\ pair = NoPair
    /\ shop = NoShop
    /\ resize = NoResize
    /\ local = NoLocal
    /\ parse = NoParse

Init == InitCreateCharm /\ route = NoRoute

\* mutant: the catch drops the message of the error
Respond500_UnknownError(message) ==
    /\ response' = [NoResponse EXCEPT !.status = 500,
                                      !.error = <<"Internal", " ", "server", " ", "error">>,
                                      !.details = <<"Unknown", " ", "error">>,
                                      !.from = pc,
                                      !.totalTimeMs = now' - marks.startTime]
    /\ pc' = "done"
    /\ inflight' = {}

\* mutant: the catch answers nothing and the handler goes on to convertToGreyscale
Respond500_GoesOn(message) ==
    /\ response' = [NoResponse EXCEPT !.status = 500,
                                      !.error = <<"Internal", " ", "server", " ", "error">>,
                                      !.details = message,
                                      !.from = pc,
                                      !.totalTimeMs = now' - marks.startTime]
    /\ pc' = "silver1"
    /\ inflight' = {}

\* mutant: the catch rethrows, the promise of handleCreateCharm rejects
Respond500_Rethrows(message) ==
    /\ response' = response
    /\ pc' = "threw"
    /\ inflight' = {}

\* the catch of handleCreateCharm; from: the await that rejected
Respond500(message) ==
    /\ response' = [NoResponse EXCEPT !.status = 500,
                                      !.error = <<"Internal", " ", "server", " ", "error">>,
                                      !.details = message,
                                      !.from = pc,
                                      !.totalTimeMs = now' - marks.startTime]
    /\ pc' = "done"
    /\ inflight' = {}

\* mutant: the validation lets the request through
Respond400_EntersPipeline ==
    /\ response' = response
    /\ pc' = "arrayBuffer"

Respond400 ==
    /\ response' = [NoResponse EXCEPT !.status = 400,
                                      !.error = <<"Missing", " ", "required", " ", "fields">>]
    /\ pc' = "done"

\* await request.formData(), the validation, and up to await image.arrayBuffer()
FormDataDone ==
    /\ handler = "createCharm" /\ pc = "formData"
    /\ now' = now + 1
    /\ \E parsed \in BOOLEAN :
         IF ~parsed
         THEN /\ Respond500(<<"Failed", " ", "to", " ", "parse", " ", "body", " ", "as", " ", "FormData.">>)
              /\ UNCHANGED <<uuids, marks, calls>>
         ELSE IF req.image = "" \/ req.email = <<>>
         THEN /\ Respond400
              /\ UNCHANGED <<uuids, marks, calls, inflight>>
         ELSE /\ uuids' = uuids + 1
              /\ marks' = [marks EXCEPT !.fileProcessingStart = now']
              /\ calls' = Append(calls, "arrayBuffer")
              /\ pc' = "arrayBuffer"
              /\ UNCHANGED <<response, inflight>>
    /\ UNCHANGED <<envVars, soloVars, moreVars, passed, transform, route, pureVars, r2calls, preVars, visionVars, goldVars, silverVars, events>>

ImageExt(type) == IF type = "image/png" THEN ".png" ELSE ".jpg"

\* await image.arrayBuffer(), then the call of uploadImageToR2
ArrayBufferDone ==
    /\ handler = "createCharm" /\ pc = "arrayBuffer"
    /\ now' = now + 1
    /\ \E read \in BOOLEAN :
         IF ~read
         THEN /\ Respond500(<<"arrayBuffer", " ", "failed">>)
              /\ UNCHANGED calls
         ELSE /\ pc' = "uploadOriginal"
              /\ calls' = IF bucket THEN Append(calls, "put:original") ELSE calls
              /\ UNCHANGED <<response, inflight>>
    /\ UNCHANGED <<envVars, soloVars, moreVars, passed, transform, route, pureVars, storeVars, preVars, visionVars, goldVars, silverVars, events, marks>>

\* await uploadImageToR2(original), then the transform URL and its fetch
UploadOriginalDone ==
    /\ handler = "createCharm" /\ pc = "uploadOriginal"
    /\ now' = now + 1
    /\ \E putOk \in PutOutcomes :
         LET call == uploadImageToR2("original", UUID(uuids) \o <<ImageExt(req.image)>>,
                                     "original-image", bucket, putOk)
         IN  /\ r2calls' = Append(r2calls, call)
             /\ IF call.threw
                THEN /\ Respond500(<<"upload", " ", "failed">>)
                     /\ UNCHANGED <<originalImageUrl, visionInputKind, events, calls>>
                ELSE /\ originalImageUrl' = call.url
                     /\ visionInputKind' = "cloudflare_grayscale_1024_pad_white_jpeg"
                     /\ pc' = "fetchTransform"
                     /\ events' = Append(events, "call:preprocess")
                     /\ inflight' = {"preprocess"}
                     /\ calls' = Append(calls, "fetch:transform")
                     /\ UNCHANGED response
    /\ UNCHANGED <<envVars, soloVars, moreVars, passed, transform, route, pureVars, uuids, grayscale1024Base64, visionVars,
                   goldVars, silverVars, marks>>

\* the Preprocessor has produced the working image: line 97 to the vision fetch
EnterVision ==
    /\ pc' = "vision"
    /\ events' = events \o <<"ret:preprocess", "call:vision">>
    /\ inflight' = {"vision"}
    /\ calls' = Append(calls, "vision")
    /\ marks' = [marks EXCEPT !.aiProcessingStart = now']
    /\ passed' = [passed EXCEPT !.vision = grayscale1024Base64']

\* how the fetch of the transform URL can end: a 2xx answer whose bytes are read, a
\* non-2xx answer, or a rejected fetch or body read
TransformOutcomes == {"ok", "status", "transport"}

\* mutant: a non-2xx answer is taken for the image
TransformFailed_TransportOnly(outcome) == outcome = "transport"

\* lines 82-85 and the catch of line 89
TransformFailed(outcome) == outcome # "ok"

\* await fetch(grayscale1024Url)
FetchTransformDone ==
    /\ handler = "createCharm" /\ pc = "fetchTransform"
    /\ now' = now + 1
    /\ \E outcome \in TransformOutcomes :
         /\ transform' = outcome
         /\ IF TransformFailed(outcome)
            THEN /\ pc' = "localFallback"
                 /\ UNCHANGED <<grayscale1024Base64, events, inflight, calls, marks, passed>>
            ELSE /\ grayscale1024Base64' = "cloudflare-1024"
                 /\ EnterVision
    /\ UNCHANGED <<envVars, soloVars, moreVars, route, pureVars, visionInputKind, storeVars, originalImageUrl, visionVars, goldVars, silverVars,
                   response>>

\* await resizeAndGrayscaleTo1024(originalImageBuffer, image.type)
LocalFallbackDone ==
    /\ handler = "createCharm" /\ pc = "localFallback"
    /\ now' = now + 1
    /\ \E thrownAt \in LocalThrows :
         LET r == resizeAndGrayscaleTo1024(thrownAt)
         IN  /\ local' = [NoLocal EXCEPT !.step = "returned", !.thrownAt = thrownAt,
                                         !.base64 = r.base64]
             /\ IF r.threw
                THEN /\ Respond500(<<"decode", " ", "failed">>)
                     /\ UNCHANGED <<grayscale1024Base64, visionInputKind, events, calls, marks,
                                    passed>>
                ELSE /\ grayscale1024Base64' = r.base64
                     /\ visionInputKind' = "local_fallback_grayscale_1024_pad_white_jpeg"
                     /\ EnterVision
                     /\ UNCHANGED response
    /\ UNCHANGED <<envVars, soloVars, moreVars, transform, route, parse, storeVars, originalImageUrl, visionVars, goldVars, silverVars>>

\* mutant: the story of the vision stage wins over the story of the caller
NameAndStory_VisionStoryWins(story, vision) ==
    IF story # <<>> /\ ~Truthy(vision.story)
    THEN [productName |-> JStr(TheDefaultName), story |-> JStr(story)]
    ELSE [productName |-> vision.productName, story |-> vision.story]

\* line 108: a story of the caller replaces the story and resets the name
NameAndStory(story, vision) ==
    IF story # <<>>
    THEN [productName |-> JStr(TheDefaultName), story |-> JStr(story)]
    ELSE [productName |-> vision.productName, story |-> vision.story]

\* mutant: the image of the upload is passed in place of the working image
GoldArguments_OriginalImage(image, vision) ==
    [goldImage |-> "original-base64", goldPrompt |-> vision.prompt]

\* line 113: generateGoldImage(grayscale1024Base64, env, visionResult.prompt)
GoldArguments(image, vision) == [goldImage |-> image, goldPrompt |-> vision.prompt]

\* await generateGroqVisionPrompt, lines 105-113, and the first synthesis attempt
VisionDone ==
    /\ handler = "createCharm" /\ pc = "vision"
    /\ \E o \in VisionOutcomes :
         LET r == generateGroqVisionPrompt(o)
         IN  /\ visionCall' = o
             /\ now' = now + (IF o.kind = "timeout" THEN VisionTimeoutMs ELSE 1)
             /\ IF r.threw
                THEN /\ Respond500(<<"vision", " ", "failed">>)
                     /\ UNCHANGED <<visionResult, nameAndStory, finalPrompt, synth, events, calls,
                                    passed>>
                ELSE /\ visionResult' = r.value
                     /\ IF r.value.prompt.t # "string"
                        THEN \* an array has slice, and fails at prompt.trim in
                             \* generateGoldImage; any other value fails at line 105
                             /\ Respond500(IF r.value.prompt.t = "array"
                                           THEN <<"prompt.trim", " ", "is", " ", "not", " ", "a",
                                                  " ", "function">>
                                           ELSE <<"visionResult.prompt.slice", " ", "is", " ",
                                                  "not", " ", "a", " ", "function">>)
                             /\ nameAndStory' = IF r.value.prompt.t = "array"
                                                THEN NameAndStory(req.story, r.value)
                                                ELSE nameAndStory
                             /\ passed' = IF r.value.prompt.t = "array"
                                          THEN GoldArguments(grayscale1024Base64, r.value)
                                               @@ passed
                                          ELSE passed
                             /\ UNCHANGED <<finalPrompt, synth, calls>>
                             /\ events' = Append(events, "ret:vision")
                        ELSE /\ nameAndStory' = NameAndStory(req.story, r.value)
                             /\ passed' = GoldArguments(grayscale1024Base64, r.value) @@ passed
                             /\ finalPrompt' = ResolvePrompt(passed'.goldPrompt)
                             /\ synth' = <<SynthRequest(passed'.goldImage,
                                                        ResolvePrompt(passed'.goldPrompt), now')>>
                             /\ events' = events \o <<"ret:vision", "call:synthesis">>
                             /\ inflight' = {"synthesis"}
                             /\ calls' = Append(calls, "synthesis")
                             /\ pc' = "gold"
                             /\ UNCHANGED response
    /\ attempt' = 0
    /\ UNCHANGED <<envVars, soloVars, moreVars, transform, route, pureVars, storeVars, preVars, wake, goldImageUrl, silverVars, marks>>

\* one attempt of the operation ends: lines 40-60 of fal.ts and the loop of retry.ts
GoldAttemptDone ==
    /\ pc = "gold"
    /\ \E o \in SynthOutcomes :
         /\ now' = now + SynthElapsed(o)
         /\ synth' = [synth EXCEPT ![Len(synth)].endedAt = now',
                                   ![Len(synth)].outcome = o.kind,
                                   ![Len(synth)].status = o.status,
                                   ![Len(synth)].body = o.body]
         /\ IF o.kind = "ok"
            THEN /\ goldImageUrl' = o.url
                 /\ pc' = "silver1"
                 /\ events' = events \o <<"ret:synthesis", "call:silver">>
                 /\ inflight' = (inflight \ {"synthesis"}) \cup {"silver"}
                 /\ calls' = Append(calls, "fetch:silver1")
                 /\ UNCHANGED <<response, wake>>
            ELSE IF RetryExhausted(attempt, GoldMaxRetries)
            THEN /\ Respond500(SynthErrorMessage(o))
                 /\ events' = Append(events, "fail:synthesis")
                 /\ UNCHANGED <<goldImageUrl, wake, calls>>
            ELSE /\ wake' = now' + BackoffDelay(attempt, DefaultBaseDelay)
                 /\ pc' = "backoff"
                 /\ UNCHANGED <<goldImageUrl, response, inflight, events, calls>>
    /\ UNCHANGED <<envVars, soloVars, moreVars, passed, transform, route, pureVars, storeVars, preVars, visionVars, finalPrompt, attempt,
                   silverVars, marks>>

\* the backoff timer fires and the loop starts the next attempt
BackoffDone ==
    /\ pc = "backoff"
    /\ \E late \in 0..MaxJitter : now' = wake + late
    /\ attempt' = attempt + 1
    /\ synth' = Append(synth, SynthRequest(passed.goldImage, finalPrompt, now'))
    /\ calls' = Append(calls, "synthesis")
    /\ pc' = "gold"
    /\ UNCHANGED <<envVars, soloVars, moreVars, passed, transform, route, pureVars, storeVars, preVars, visionVars, finalPrompt, wake, goldImageUrl,
                   silverVars, response, inflight, events, marks>>

SilverPc(k) == CASE k = 1 -> "silver1" [] k = 2 -> "silver2" [] OTHER -> "silver3"

\* convertToGreyscale has returned url: line 118 to the call of createShopifyProduct
LeaveSilver(url) ==
    /\ silverImageUrl' = url
    /\ pc' = "shopify"
    /\ events' = Append(events, "ret:silver")
    /\ inflight' = inflight \ {"silver"}
    /\ marks' = [marks EXCEPT !.finalOpsStart = now']

\* the fetch of the k-th byte source ends
SilverFetchDone(k) ==
    /\ pc = SilverPc(k)
    /\ now' = now + 1
    /\ \E ok \in BOOLEAN :
         /\ fetches' = Append(fetches, [SilverSource(k, goldImageUrl) EXCEPT
                                           !.bytes = IF ok THEN @ ELSE "none"])
         /\ IF ok
            THEN /\ grayscaleArrayBuffer' = SilverSource(k, goldImageUrl).bytes
                 /\ uuids' = uuids + 1
                 /\ pc' = "silverUpload"
                 /\ calls' = IF bucket THEN Append(calls, "put:silver") ELSE calls
                 /\ UNCHANGED <<silverImageUrl, response, inflight, events, marks>>
            ELSE IF NextSource(k) # 0
            THEN /\ pc' = SilverPc(NextSource(k))
                 /\ calls' = Append(calls, "fetch:silver" \o ToString(NextSource(k)))
                 /\ UNCHANGED <<grayscaleArrayBuffer, uuids, silverImageUrl, response,
                                inflight, events, marks>>
            ELSE /\ IF SilverCatch(goldImageUrl).threw
                    THEN /\ Respond500(<<"Failed", " ", "to", " ", "fetch", " ", "original",
                                         " ", "image">>)
                         /\ UNCHANGED <<silverImageUrl, events, marks, calls>>
                    ELSE /\ LeaveSilver(SilverCatch(goldImageUrl).url)
                         /\ calls' = Append(calls, "shopify")
                         /\ UNCHANGED response
                 /\ UNCHANGED <<grayscaleArrayBuffer, uuids>>
    /\ UNCHANGED <<envVars, soloVars, moreVars, passed, transform, route, pureVars, r2calls, preVars, visionVars, goldVars>>

\* fal.ts 126-129 passes the silver tag; the uploadImageToR2 of index.ts takes no
\* options and tags every object original-image
SilverTypeMetadata == IF handler = "index" THEN "original-image" ELSE "silver-image"

\* await uploadImageToR2(silver) inside convertToGreyscale
SilverUploadDone ==
    /\ pc = "silverUpload"
    /\ now' = now + 1
    /\ \E putOk \in PutOutcomes :
         LET call == uploadImageToR2(grayscaleArrayBuffer, SilverFilename(uuids),
                                     SilverTypeMetadata, bucket, putOk)
             ret == SilverReturn(call, goldImageUrl)
         IN  /\ r2calls' = Append(r2calls, call)
             /\ IF ret.threw
                THEN /\ Respond500(<<"upload", " ", "failed">>)
                     /\ UNCHANGED <<silverImageUrl, events, marks, calls>>
                ELSE /\ LeaveSilver(ret.url)
                     /\ calls' = Append(calls, "shopify")
                     /\ UNCHANGED response
    /\ UNCHANGED <<envVars, soloVars, moreVars, passed, transform, route, pureVars, uuids, preVars, visionVars, goldVars, fetches, grayscaleArrayBuffer>>

\* await createShopifyProduct
ShopifyDone ==
    /\ handler = "createCharm" /\ pc = "shopify"
    /\ now' = now + 1
    /\ \E created \in BOOLEAN :
         IF created
         THEN /\ pc' = "save"
              /\ calls' = Append(calls, "supabase")
              /\ marks' = [marks EXCEPT !.finalOpsEnd = now']
              /\ UNCHANGED <<response, inflight>>
         ELSE /\ Respond500(<<"Shopify", " ", "API", " ", "request", " ", "failed">>)
              /\ UNCHANGED <<calls, marks>>
    /\ UNCHANGED <<envVars, soloVars, moreVars, passed, transform, route, pureVars, storeVars, preVars, visionVars,
                   goldVars, silverVars, events>>

\* lines 165-190
Respond200 ==
    /\ response' = [NoResponse EXCEPT !.status = 200, !.success = TRUE,
                                      !.goldImageUrl = goldImageUrl,
                                      !.silverImageUrl = silverImageUrl,
                                      !.story = nameAndStory.story,
                                      !.totalTimeMs = now' - marks.startTime,
                                      !.breakdown = <<marks.fileProcessingStart,
                                                      marks.aiProcessingStart,
                                                      marks.finalOpsStart>>]
    /\ pc' = "done"

\* await saveGenerationRow, then the success response
SaveDone ==
    /\ handler = "createCharm" /\ pc = "save"
    /\ now' = now + 1
    /\ \E saved \in BOOLEAN :
         IF saved
         THEN Respond200 /\ UNCHANGED inflight
         ELSE Respond500(<<"Supabase", " ", "save", " ", "failed">>)
    /\ UNCHANGED <<envVars, soloVars, moreVars, passed, transform, route, pureVars, storeVars, preVars, visionVars, goldVars, silverVars, events,
                   calls, marks>>

Next ==
    \/ FormDataDone
    \/ ArrayBufferDone
    \/ UploadOriginalDone
    \/ FetchTransformDone
    \/ LocalFallbackDone
    \/ VisionDone
    \/ GoldAttemptDone
    \/ BackoffDone
    \/ \E k \in 1..3 : SilverFetchDone(k)
    \/ SilverUploadDone
    \/ ShopifyDone
    \/ SaveDone

Spec == Init /\ [][Next]_vars

(***************************************************************************)
(* src/index.ts: its own handleCreateCharm, which the fetch router of that *)
(* file calls.  It has no Preprocessor; it starts the synthesis and the    *)
(* name-and-story call together and joins them with Promise.all.           *)
(***************************************************************************)
\* index.ts 712-716, 728-730, 744-748: the three headers the router adds
CorsHeaders == {<<"Access-Control-Allow-Origin", "*">>,
                <<"Access-Control-Allow-Methods", "GET, POST, OPTIONS">>,
                <<"Access-Control-Allow-Headers", "Content-Type">>}

JsonHeaders == {<<"Content-Type", "application/json">>}

CharmPath == "/api/create-jewelry-charm"

\* the requests the router is given: method and url.pathname
Routes == [method : {"OPTIONS", "POST", "GET"}, path : {CharmPath, "/health", "/gallery"}]

\* mutant: the headers are added to a success response only
RouterHeaders_SuccessOnly(status) == IF status = 200 THEN CorsHeaders ELSE {}

\* index.ts 728-730: headers.set on whatever response handleCreateCharm resolved to
RouterHeaders(status) == CorsHeaders

InitIndex ==
    /\ handler = "index"
    /\ pc = "route"
    /\ now = T0
    /\ req \in Requests
    /\ bucket \in BOOLEAN
    /\ uuids = 0
    /\ r2calls = <<>>
    /\ originalImageUrl = NoUrl
    /\ grayscale1024Base64 = "none"
    /\ visionInputKind = "none"
    /\ visionCall = NoVisionCall
    /\ visionResult = NoDescription
    /\ nameAndStory = [productName |-> JUndefined, story |-> JUndefined]
    /\ finalPrompt = <<>>
    /\ attempt = 0
    /\ wake = 0
    /\ synth = <<>>
    /\ goldImageUrl = NoUrl
    /\ fetches = <<>>
    /\ grayscaleArrayBuffer = "none"
    /\ silverImageUrl = NoUrl
    /\ response = NoResponse
    /\ inflight = {}
    /\ events = <<>>
    /\ calls = <<>>
    /\ marks = [NoMarks EXCEPT !.startTime = T0]
    /\ transform = "none"
    /\ passed = NoPassed
    /\ \E r \in Routes : route = [NoRoute EXCEPT !.state = "received", !.method = r.method,
                                                    !.path = r.path]
    /\ built = NoBuilt
    /\ retry = NoRetry
    /\ abort = NoAbort
    /\ pair = NoPair
    /\ shop = NoShop
    /\ resize = NoResize
    /\ local = NoLocal
    /\ parse = NoParse

\* index.ts 705-724, 755-771: fetch up to its first await or its return
IxRoute ==
    /\ handler = "index" /\ pc = "route"
    /\ IF route.method = "OPTIONS"
       THEN /\ route' = [route EXCEPT !.state = "returned", !.status = 200,
                                      !.headers = CorsHeaders]
            /\ pc' = "routed"
            /\ UNCHANGED calls
       ELSE IF route.method = "POST" /\ route.path = CharmPath
       THEN /\ route' = [route EXCEPT !.state = "invoked", !.invoked = TRUE]
            /\ pc' = "formData"
            /\ calls' = <<"formData">>
       ELSE IF route.path \in {"/", "/health"}
       THEN /\ route' = [route EXCEPT !.state = "returned", !.status = 200,
                                      !.headers = JsonHeaders]
            /\ pc' = "routed"
            /\ UNCHANGED calls
       ELSE /\ route' = [route EXCEPT !.state = "returned", !.status = 404,
                                      !.headers = JsonHeaders]
            /\ pc' = "routed"
            /\ UNCHANGED calls
    /\ UNCHANGED <<envVars, soloVars, moreVars, passed, transform, pureVars, storeVars, preVars, visionVars,
                   goldVars, silverVars, response, inflight, events, marks, now>>

\* index.ts 725-752: await handleCreateCharm settles.  Resolved: the headers are
\* set and the response returned; rejected: the catch answers 400 itself
IxRouterReturn ==
    /\ pc \in {"done", "threw"} /\ route.state = "invoked"
    /\ route' = IF pc = "threw"
                THEN [route EXCEPT !.state = "returned", !.status = 400, !.caught = TRUE,
                                   !.headers = JsonHeaders \cup CorsHeaders]
                ELSE [route EXCEPT !.state = "returned", !.status = response.status,
                                   !.headers = JsonHeaders \cup RouterHeaders(response.status)]
    /\ UNCHANGED <<envVars, soloVars, moreVars, passed, transform, pureVars, storeVars, preVars, visionVars,
                   goldVars, silverVars, response, inflight, events, calls, marks, pc, now>>

\* index.ts 581-611: formData, the validation, the fan-out of the two file reads
IxFormDataDone ==
    /\ handler = "index" /\ pc = "formData"
    /\ now' = now + 1
    /\ \E parsed \in BOOLEAN :
         IF ~parsed
         THEN /\ Respond500(<<"Failed", " ", "to", " ", "parse", " ", "body", " ", "as", " ", "FormData.">>)
              /\ UNCHANGED <<marks, calls>>
         ELSE IF req.image = "" \/ req.email = <<>>
         THEN /\ Respond400
              /\ UNCHANGED <<marks, calls, inflight>>
         ELSE /\ marks' = [marks EXCEPT !.fileProcessingStart = now']
              /\ calls' = calls \o <<"arrayBuffer", "arrayBuffer">>
              /\ pc' = "fileProcessing"
              /\ UNCHANGED <<response, inflight>>
    /\ UNCHANGED <<envVars, soloVars, moreVars, passed, transform, route, pureVars, storeVars, preVars, visionVars, goldVars, silverVars, events>>

\* the hard-coded prompt of index.ts 216
IndexPrompt == <<"Convert", " ", "input", " ", "photos">>

\* index.ts 608-628: the join of the file reads, then generateGoldImage and
\* generateProductNameAndStory are both called before the handler awaits
IxFileProcessingDone ==
    /\ handler = "index" /\ pc = "fileProcessing"
    /\ now' = now + 1
    /\ \E read \in BOOLEAN :
         IF ~read
         THEN /\ Respond500(<<"arrayBuffer", " ", "failed">>)
              /\ UNCHANGED <<grayscale1024Base64, nameAndStory, finalPrompt, synth, events,
                             calls, marks>>
         ELSE /\ grayscale1024Base64' = "original-base64"
              /\ finalPrompt' = IndexPrompt
              /\ synth' = <<SynthRequest("original-base64", IndexPrompt, now')>>
              /\ marks' = [marks EXCEPT !.aiProcessingStart = now']
              /\ IF req.story # <<>>
                 THEN /\ nameAndStory' = NameAndStory(req.story, NoDescription)
                      /\ events' = Append(events, "call:synthesis")
                      /\ inflight' = {"synthesis"}
                      /\ calls' = Append(calls, "synthesis")
                 ELSE /\ events' = events \o <<"call:synthesis", "call:vision">>
                      /\ inflight' = {"synthesis", "vision"}
                      /\ calls' = calls \o <<"synthesis", "vision">>
                      /\ UNCHANGED nameAndStory
              /\ pc' = "par:gold"
              /\ UNCHANGED response
    /\ attempt' = 0
    /\ UNCHANGED <<envVars, soloVars, moreVars, passed, transform, route, pureVars, storeVars, originalImageUrl, visionInputKind, visionCall,
                   visionResult, wake, goldImageUrl, silverVars>>

\* index.ts 143-165: JSON.parse alone, the defaults in the catch
generateProductNameAndStory(o) ==
    LET parsed == JSONParse(o.content)
    IN  IF o.kind # "content" \/ ~parsed.ok \/ parsed.kind = "null"
        THEN [productName |-> JStr(TheDefaultName), story |-> JStr(TheDefaultStory)]
        ELSE [productName |-> OrElse(parsed.productName, JStr(TheDefaultName)),
              story |-> OrElse(parsed.story, JStr(TheDefaultStory))]

\* Promise.all of index.ts 621 resolves once both calls have: on to convertToGreyscale
IxJoin ==
    /\ pc' = "silver1"
    /\ calls' = Append(calls, "fetch:silver1")

\* generateProductNameAndStory resolves
IxVisionDone ==
    /\ handler = "index" /\ pc \in {"par:gold", "par:backoff", "par:goldDone"}
    /\ "vision" \in inflight
    /\ \E o \in VisionOutcomes :
         /\ visionCall' = o
         /\ now' = now + 1
         /\ nameAndStory' = generateProductNameAndStory(o)
    /\ inflight' = inflight \ {"vision"}
    /\ IF pc = "par:goldDone"
       THEN /\ IxJoin
            /\ events' = events \o <<"ret:vision", "call:silver">>
       ELSE /\ events' = Append(events, "ret:vision")
            /\ UNCHANGED <<pc, calls>>
    /\ UNCHANGED <<envVars, soloVars, moreVars, passed, transform, route, pureVars, storeVars, preVars, visionResult, goldVars, silverVars,
                   response, marks>>

\* one attempt of index.ts generateGoldImage ends
IxGoldAttemptDone ==
    /\ handler = "index" /\ pc = "par:gold"
    /\ \E o \in SynthOutcomes :
         /\ now' = now + SynthElapsed(o)
         /\ synth' = [synth EXCEPT ![Len(synth)].endedAt = now',
                                   ![Len(synth)].outcome = o.kind,
                                   ![Len(synth)].status = o.status,
                                   ![Len(synth)].body = o.body]
         /\ IF o.kind = "ok"
            THEN /\ goldImageUrl' = o.url
                 /\ inflight' = inflight \ {"synthesis"}
                 /\ IF "vision" \in inflight
                    THEN /\ pc' = "par:goldDone"
                         /\ events' = Append(events, "ret:synthesis")
                         /\ UNCHANGED calls
                    ELSE /\ IxJoin
                         /\ events' = events \o <<"ret:synthesis", "call:silver">>
                 /\ UNCHANGED <<response, wake>>
            ELSE IF RetryExhausted(attempt, GoldMaxRetries)
            THEN /\ Respond500(SynthErrorMessage(o))
                 /\ events' = Append(events, "fail:synthesis")
                 /\ UNCHANGED <<goldImageUrl, wake, calls>>
            ELSE /\ wake' = now' + BackoffDelay(attempt, DefaultBaseDelay)
                 /\ pc' = "par:backoff"
                 /\ UNCHANGED <<goldImageUrl, response, inflight, events, calls>>
    /\ UNCHANGED <<envVars, soloVars, moreVars, passed, transform, route, pureVars, storeVars, preVars, visionVars, finalPrompt, attempt,
                   silverVars, marks>>

IxBackoffDone ==
    /\ handler = "index" /\ pc = "par:backoff"
    /\ \E late \in 0..MaxJitter : now' = IF wake + late > now THEN wake + late ELSE now
    /\ attempt' = attempt + 1
    /\ synth' = Append(synth, SynthRequest(grayscale1024Base64, finalPrompt, now'))
    /\ calls' = Append(calls, "synthesis")
    /\ pc' = "par:gold"
    /\ UNCHANGED <<envVars, soloVars, moreVars, passed, transform, route, pureVars, storeVars, preVars, visionVars, finalPrompt, wake, goldImageUrl,
                   silverVars, response, inflight, events, marks>>

\* index.ts 641-688: createShopifyProduct and the upload of the original, joined
IxFinalOpsDone ==
    /\ handler = "index" /\ pc = "shopify"
    /\ now' = now + 1
    /\ \E created \in BOOLEAN, putOk \in PutOutcomes :
         LET call == uploadImageToR2("original", UUID(uuids + 1) \o <<".jpg">>,
                                     "original-image", bucket, putOk)
         IN  /\ uuids' = uuids + 1
             /\ r2calls' = Append(r2calls, call)
             /\ calls' = IF bucket THEN Append(calls, "put:original") ELSE calls
             /\ IF created
                THEN /\ originalImageUrl' = call.url
                     /\ Respond200
                     /\ UNCHANGED inflight
                ELSE /\ Respond500(<<"Shopify", " ", "API", " ", "request", " ", "failed">>)
                     /\ UNCHANGED originalImageUrl
    /\ UNCHANGED <<envVars, soloVars, moreVars, passed, transform, route, pureVars, grayscale1024Base64, visionInputKind, visionVars, goldVars,
                   silverVars, events, marks>>

NextIndex ==
    \/ IxRoute
    \/ IxRouterReturn
    \/ IxFormDataDone
    \/ IxFileProcessingDone
    \/ IxVisionDone
    \/ IxGoldAttemptDone
    \/ IxBackoffDone
    \/ \E k \in 1..3 : SilverFetchDone(k)
    \/ SilverUploadDone
    \/ IxFinalOpsDone

SpecIndex == InitIndex /\ [][NextIndex]_vars

(***************************************************************************)
(* The handleCreateCharm of handlers/createCharm.ts awaited by the router  *)
(* of index.ts 722-753.  Every pending await settles and every timer       *)
(* fires: weak fairness on the step.                                       *)
(***************************************************************************)
InitRouted ==
    /\ InitCreateCharm
    /\ route = [NoRoute EXCEPT !.state = "invoked", !.method = "POST", !.path = CharmPath,
                               !.invoked = TRUE]

NextRouted == Next \/ IxRouterReturn

SpecRouted == InitRouted /\ [][NextRouted]_vars /\ WF_vars(NextRouted)

(***************************************************************************)
(* generateGoldImage alone, called with each kind of instruction.          *)
(***************************************************************************)
Instructions == {JUndefined, JStr(<<>>), JStr(<<" ", " ">>), JStr(LionPrompt),
                 JStr(<<" ", "a", " ", "dog", " ">>)}

InitSynth ==
    /\ handler = "createCharm"
    /\ pc = "callGold"
    /\ now = T0
    /\ req = [image |-> "image/jpeg", email |-> <<"a@b.c">>, story |-> <<>>]
    /\ bucket = TRUE
    /\ uuids = 0
    /\ r2calls = <<>>
    /\ originalImageUrl = NoUrl
    /\ grayscale1024Base64 \in {"cloudflare-1024", "local-1024"}
    /\ visionInputKind = "none"
    /\ visionCall = NoVisionCall
    /\ visionResult \in {[NoDescription EXCEPT !.prompt = p] : p \in Instructions}
    /\ nameAndStory = [productName |-> JUndefined, story |-> JUndefined]
    /\ finalPrompt = <<>>
    /\ attempt = 0
    /\ wake = 0
    /\ synth = <<>>
    /\ goldImageUrl = NoUrl
    /\ fetches = <<>>
    /\ grayscaleArrayBuffer = "none"
    /\ silverImageUrl = NoUrl
    /\ response = NoResponse
    /\ inflight = {}
    /\ events = <<>>
    /\ calls = <<>>
    /\ marks = [NoMarks EXCEPT !.startTime = T0]
    /\ transform = "none"
    /\ passed = NoPassed
    /\ route = NoRoute
    /\ built = NoBuilt
    /\ retry = NoRetry
    /\ abort = NoAbort
    /\ pair = NoPair
    /\ shop = NoShop
    /\ resize = NoResize
    /\ local = NoLocal
    /\ parse = NoParse

\* generateGoldImage(imageBase64, env, prompt) up to the fetch of its first attempt
CallGold ==
    /\ pc = "callGold"
    /\ passed' = GoldArguments(grayscale1024Base64, visionResult) @@ passed
    /\ finalPrompt' = ResolvePrompt(passed'.goldPrompt)
    /\ synth' = <<SynthRequest(passed'.goldImage, ResolvePrompt(passed'.goldPrompt), now)>>
    /\ events' = Append(events, "call:synthesis")
    /\ inflight' = {"synthesis"}
    /\ calls' = Append(calls, "synthesis")
    /\ pc' = "gold"
    /\ UNCHANGED <<envVars, soloVars, moreVars, transform, route, pureVars, storeVars, preVars, visionVars, attempt, wake, goldImageUrl,
                   silverVars, response, now, marks>>

NextSynth == CallGold \/ GoldAttemptDone \/ BackoffDone

SpecSynth == InitSynth /\ [][NextSynth]_vars

(***************************************************************************)
(* resizeAndGrayscaleTo1024 alone, on each decoded size, followed at one   *)
(* pixel of the canvas.                                                    *)
(***************************************************************************)
InitLocal ==
    /\ handler = "createCharm"
    /\ pc = "localFallback"
    /\ now = T0
    /\ req \in {r \in Requests : r.image # ""}
    /\ bucket = TRUE
    /\ uuids = 1
    /\ r2calls = <<>>
    /\ originalImageUrl = PublicUrl(UUID(1) \o <<".jpg">>)
    /\ grayscale1024Base64 = "none"
    /\ visionInputKind = "cloudflare_grayscale_1024_pad_white_jpeg"
    /\ visionCall = NoVisionCall
    /\ visionResult = NoDescription
    /\ nameAndStory = [productName |-> JUndefined, story |-> JUndefined]
    /\ finalPrompt = <<>>
    /\ attempt = 0
    /\ wake = 0
    /\ synth = <<>>
    /\ goldImageUrl = NoUrl
    /\ fetches = <<>>
    /\ grayscaleArrayBuffer = "none"
    /\ silverImageUrl = NoUrl
    /\ response = NoResponse
    /\ inflight = {"preprocess"}
    /\ events = <<"call:preprocess">>
    /\ calls = <<>>
    /\ marks = [NoMarks EXCEPT !.startTime = T0]
    /\ transform \in {"status", "transport"}
    /\ passed = NoPassed
    /\ route = NoRoute
    /\ built = NoBuilt
    /\ retry = NoRetry
    /\ abort = NoAbort
    /\ pair = NoPair
    /\ shop = NoShop
    /\ resize = NoResize
    /\ \E img \in Images : local = [NoLocal EXCEPT !.step = "decode", !.image = img]
    /\ parse = NoParse

LocalUnchanged ==
    UNCHANGED <<envVars, soloVars, moreVars, passed, transform, route, parse, storeVars, originalImageUrl, visionInputKind, visionVars,
                goldVars, silverVars, response, inflight, events, calls, marks, now, pc>>

\* the catch of lines 140-144 after a throw at the given step
LocalThrown(thrownAt) ==
    /\ local' = [local EXCEPT !.step = "returned", !.thrownAt = thrownAt,
                              !.base64 = resizeAndGrayscaleTo1024(thrownAt).base64]
    /\ grayscale1024Base64' = resizeAndGrayscaleTo1024(thrownAt).base64

\* lines 50-83: the decoder, then the scaled size
LfDecode ==
    /\ local.step = "decode"
    /\ IF local.image.width = 0
       THEN LocalThrown("decode")
       ELSE /\ local' = [local EXCEPT
                   !.step = "scaled",
                   !.scaledWidth = ScaledSize(local.image.width, local.image.height).scaledWidth,
                   !.scaledHeight = ScaledSize(local.image.width, local.image.height).scaledHeight]
            /\ UNCHANGED grayscale1024Base64
    /\ LocalUnchanged

\* the pixels worth probing on one axis: the ends of the canvas and both sides of
\* each edge of the placed image
ProbeCoords(offset, scaled) ==
    {0, offset - 1, offset, offset + scaled - 1, offset + scaled, TargetSize - 1}
    \cap (0..(TargetSize - 1))

\* lines 86-116: bilinearResize, the white canvas, the offsets, the copy loop
LfPlace ==
    /\ local.step = "scaled"
    /\ \E resized \in BOOLEAN :
         IF ~resized
         THEN LocalThrown("resize")
         ELSE LET ox == Offset(local.scaledWidth)
                  oy == Offset(local.scaledHeight)
              IN  /\ \E px \in ProbeCoords(ox, local.scaledWidth),
                        py \in ProbeCoords(oy, local.scaledHeight),
                        c \in Colours :
                       LET covered == Written(py * TargetSize + px, local.scaledWidth,
                                              local.scaledHeight, ox, oy)
                       IN  local' = [local EXCEPT
                               !.step = "placed", !.offsetX = ox, !.offsetY = oy,
                               !.canvasPixels = TargetSize * TargetSize,
                               !.px = px, !.py = py, !.covered = covered,
                               !.before = IF covered THEN c ELSE White,
                               !.after = IF covered THEN c ELSE White]
                  /\ UNCHANGED grayscale1024Base64
    /\ LocalUnchanged

\* lines 118-128
LfGreyscale ==
    /\ local.step = "placed"
    /\ local' = [local EXCEPT !.step = "grey", !.after = Greyscale(local.before)]
    /\ UNCHANGED grayscale1024Base64
    /\ LocalUnchanged

\* lines 130-139: JPEG.encode and the base64 of its bytes
LfEncode ==
    /\ local.step = "grey"
    /\ \E encoded \in BOOLEAN :
         IF ~encoded
         THEN LocalThrown("encode")
         ELSE /\ local' = [local EXCEPT !.step = "returned", !.encodedWidth = TargetSize,
                                        !.encodedHeight = TargetSize,
                                        !.base64 = resizeAndGrayscaleTo1024("none").base64]
              /\ grayscale1024Base64' = resizeAndGrayscaleTo1024("none").base64
    /\ LocalUnchanged

NextLocal == LfDecode \/ LfPlace \/ LfGreyscale \/ LfEncode

SpecLocal == InitLocal /\ [][NextLocal]_vars

(***************************************************************************)
(* parseJsonFromContent alone, on three renderings of each object.         *)
(***************************************************************************)
InitParse ==
    /\ handler = "createCharm"
    /\ pc = "vision"
    /\ now = T0
    /\ req = [image |-> "image/jpeg", email |-> <<"a@b.c">>, story |-> <<>>]
    /\ bucket = TRUE
    /\ uuids = 1
    /\ r2calls = <<>>
    /\ originalImageUrl = PublicUrl(UUID(1) \o <<".jpg">>)
    /\ grayscale1024Base64 = "cloudflare-1024"
    /\ visionInputKind = "cloudflare_grayscale_1024_pad_white_jpeg"
    /\ visionCall = NoVisionCall
    /\ visionResult = NoDescription
    /\ nameAndStory = [productName |-> JUndefined, story |-> JUndefined]
    /\ finalPrompt = <<>>
    /\ attempt = 0
    /\ wake = 0
    /\ synth = <<>>
    /\ goldImageUrl = NoUrl
    /\ fetches = <<>>
    /\ grayscaleArrayBuffer = "none"
    /\ silverImageUrl = NoUrl
    /\ response = NoResponse
    /\ inflight = {"vision"}
    /\ events = <<"call:vision">>
    /\ calls = <<>>
    /\ marks = [NoMarks EXCEPT !.startTime = T0]
    /\ transform = "none"
    /\ passed = NoPassed
    /\ route = NoRoute
    /\ built = NoBuilt
    /\ retry = NoRetry
    /\ abort = NoAbort
    /\ pair = NoPair
    /\ shop = NoShop
    /\ resize = NoResize
    /\ local = NoLocal
    /\ \E o \in Objects, l \in Labels, a \in Prose, b \in Prose :
         parse = [NoParse EXCEPT !.object = o, !.label = l, !.lead = a, !.trail = b]

ParseUnchanged ==
    UNCHANGED <<envVars, soloVars, moreVars, passed, transform, route, local, storeVars, preVars, visionVars, goldVars, silverVars,
                response, inflight, events, calls, marks, now, pc>>

\* parseJsonFromContent(bare serialization)
ParseBare ==
    /\ parse.step = 0
    /\ parse' = [parse EXCEPT !.step = 1, !.bare = parseJsonFromContent(parse.object)]
    /\ ParseUnchanged

\* parseJsonFromContent(the object in a labeled fence)
ParseFenced ==
    /\ parse.step = 1
    /\ parse' = [parse EXCEPT !.step = 2,
                              !.fenced = parseJsonFromContent(Fenced(parse.label, parse.object))]
    /\ ParseUnchanged

\* parseJsonFromContent(prose, the object, prose)
ParseProse ==
    /\ parse.step = 2
    /\ parse' = [parse EXCEPT !.step = 3,
                              !.prose = parseJsonFromContent(parse.lead \o parse.object
                                                             \o parse.trail)]
    /\ ParseUnchanged

NextParse == ParseBare \/ ParseFenced \/ ParseProse

SpecParse == InitParse /\ [][NextParse]_vars

(***************************************************************************)
(* The handler state of the specifications that run one function alone:    *)
(* no request is being served.                                             *)
(***************************************************************************)
NoRequest ==
    /\ handler = "none"
    /\ pc = "none"
    /\ now = T0
    /\ req = [image |-> "", email |-> <<>>, story |-> <<>>]
    /\ bucket = TRUE
    /\ uuids = 0
    /\ r2calls = <<>>
    /\ originalImageUrl = NoUrl
    /\ grayscale1024Base64 = "none"
    /\ visionInputKind = "none"
    /\ visionCall = NoVisionCall
    /\ visionResult = NoDescription
    /\ nameAndStory = [productName |-> JUndefined, story |-> JUndefined]
    /\ finalPrompt = <<>>
    /\ attempt = 0
    /\ wake = 0
    /\ synth = <<>>
    /\ goldImageUrl = NoUrl
    /\ fetches = <<>>
    /\ grayscaleArrayBuffer = "none"
    /\ silverImageUrl = NoUrl
    /\ response = NoResponse
    /\ inflight = {}
    /\ events = <<>>
    /\ calls = <<>>
    /\ marks = NoMarks
    /\ local = NoLocal
    /\ transform = "none"
    /\ passed = NoPassed

HandlerUnchanged ==
    UNCHANGED <<envVars, passed, pureVars, storeVars, preVars, visionVars, goldVars, silverVars,
                response, inflight, events, calls, marks, pc, transform>>

(***************************************************************************)
(* buildCloudflareImageTransformUrl alone, on each set of options.         *)
(***************************************************************************)
InputUrls == {PublicUrl(UUID(1) \o <<".jpg">>), PlaceholderUrl(UUID(1) \o <<".png">>)}

InitUrl ==
    /\ NoRequest
    /\ parse = NoParse
    /\ route = NoRoute
    /\ \E u \in InputUrls, o \in OptionSets :
         built = [NoBuilt EXCEPT !.inputUrl = u, !.options = o]
    /\ retry = NoRetry
    /\ abort = NoAbort
    /\ pair = NoPair
    /\ shop = NoShop
    /\ resize = NoResize

BuildUrl ==
    /\ built.step = 0
    /\ built' = [built EXCEPT !.step = 1,
                              !.url = buildCloudflareImageTransformUrl(built.inputUrl,
                                                                       built.options)]
    /\ HandlerUnchanged
    /\ UNCHANGED <<now, route, retry, abort, pair, moreVars>>

NextUrl == BuildUrl

SpecUrl == InitUrl /\ [][NextUrl]_vars

(***************************************************************************)
(* Two invocations of handleCreateCharm (createCharm.ts) on one event      *)
(* loop, interleaved at their awaits.  Each has its own locals; they share *)
(* the bucket and crypto.randomUUID.  Every external call can fail as in   *)
(* Spec, over fewer outcomes of each: the form, the image bytes, the put   *)
(* inside convertToGreyscale, the product and the row always succeed, the  *)
(* local fallback always lands in its catch, and the time on the clock is  *)
(* left out.                                                               *)
(***************************************************************************)
Inv == {1, 2}

PairRequests == <<[image |-> "image/jpeg", email |-> <<"a@b.c">>, story |-> <<>>],
                  [image |-> "image/png", email |-> <<"d@e.f">>,
                   story |-> <<"my", " ", "story">>]>>

PairVisionOutcomes == {[kind |-> "transport", content |-> <<>>],
                       [kind |-> "content", content |-> FullObject]}

PairSynthOutcomes == {o \in SynthOutcomes : o.url # <<>> \/ (o.kind = "status" /\ o.body = <<>>)}

PairTransformOutcomes == {"ok", "transport"}
PairLocalThrows == {"decode"}

\* the locals of one invocation
NoLocals(r) == [pc |-> "formData", req |-> r, randomId |-> 0, silverId |-> 0,
                originalImageUrl |-> NoUrl, transform |-> "none",
                grayscale1024Base64 |-> "none", visionCall |-> NoVisionCall,
                visionResult |-> NoDescription,
                nameAndStory |-> [productName |-> JUndefined, story |-> JUndefined],
                attempt |-> 0, synth |-> <<>>, goldImageUrl |-> NoUrl,
                fetches |-> <<>>, uploads |-> <<>>, silverImageUrl |-> NoUrl,
                response |-> NoResponse]

InitPair ==
    /\ NoRequest
    /\ parse = NoParse
    /\ route = NoRoute
    /\ built = NoBuilt
    /\ retry = NoRetry
    /\ abort = NoAbort
    /\ pair = [i \in Inv |-> NoLocals(PairRequests[i])]
    /\ shop = NoShop
    /\ resize = NoResize

PairUnchanged ==
    /\ UNCHANGED <<handler, req, bucket, pureVars, preVars, visionVars, goldVars, silverVars,
                   response, inflight, events, calls, marks, pc, transform, passed>>
    /\ UNCHANGED <<now, route, built, retry, abort, moreVars>>

\* lines 15-46 of invocation i
PFormDataDone(i) ==
    /\ pair[i].pc = "formData"
    /\ uuids' = uuids + 1
    /\ pair' = [pair EXCEPT ![i].randomId = uuids + 1, ![i].pc = "uploadOriginal"]
    /\ UNCHANGED r2calls
    /\ PairUnchanged

\* lines 52-81
PUploadOriginalDone(i) ==
    /\ pair[i].pc = "uploadOriginal"
    /\ \E putOk \in PutOutcomes :
         LET call == uploadImageToR2(<<"original", i>>,
                                     UUID(pair[i].randomId) \o <<ImageExt(pair[i].req.image)>>,
                                     "original-image", bucket, putOk)
         IN  /\ r2calls' = Append(r2calls, call)
             /\ pair' = [pair EXCEPT ![i].originalImageUrl = call.url,
                                     ![i].uploads = Append(@, call),
                                     ![i].pc = "fetchTransform"]
    /\ UNCHANGED uuids
    /\ PairUnchanged

\* lines 80-104: the transform fetch, and the local fallback when it failed
PFetchTransformDone(i) ==
    /\ pair[i].pc = "fetchTransform"
    /\ \E outcome \in PairTransformOutcomes :
         pair' = [pair EXCEPT
                     ![i].transform = outcome,
                     ![i].grayscale1024Base64 =
                         IF TransformFailed(outcome) THEN @ ELSE "cloudflare-1024",
                     ![i].pc = IF TransformFailed(outcome) THEN "localFallback" ELSE "vision"]
    /\ UNCHANGED storeVars
    /\ PairUnchanged

PLocalFallbackDone(i) ==
    /\ pair[i].pc = "localFallback"
    /\ \E thrownAt \in PairLocalThrows :
         pair' = [pair EXCEPT
                     ![i].grayscale1024Base64 = resizeAndGrayscaleTo1024(thrownAt).base64,
                     ![i].pc = "vision"]
    /\ UNCHANGED storeVars
    /\ PairUnchanged

\* lines 104-113
PVisionDone(i) ==
    /\ pair[i].pc = "vision"
    /\ \E o \in PairVisionOutcomes :
         LET r == generateGroqVisionPrompt(o)
         IN  pair' = [pair EXCEPT
                         ![i].visionCall = o,
                         ![i].visionResult = r.value,
                         ![i].nameAndStory = NameAndStory(pair[i].req.story, r.value),
                         ![i].synth = <<[prompt |-> ResolvePrompt(r.value.prompt),
                                         image |-> pair[i].grayscale1024Base64,
                                         outcome |-> "pending"]>>,
                         ![i].pc = "gold"]
    /\ UNCHANGED storeVars
    /\ PairUnchanged

\* one synthesis attempt of invocation i ends; a failed first attempt is followed by
\* the backoff and the second
PGoldAttemptDone(i) ==
    /\ pair[i].pc = "gold"
    /\ \E o \in PairSynthOutcomes :
         LET p == pair[i]
             logged == [p.synth EXCEPT ![Len(p.synth)].outcome = o.kind]
         IN  IF o.kind = "ok"
             THEN pair' = [pair EXCEPT ![i].synth = logged, ![i].goldImageUrl = o.url,
                                       ![i].pc = "silver1"]
             ELSE IF RetryExhausted(p.attempt, GoldMaxRetries)
             THEN pair' = [pair EXCEPT
                              ![i].synth = logged,
                              ![i].response = [NoResponse EXCEPT
                                                  !.status = 500, !.from = "gold",
                                                  !.details = SynthErrorMessage(o)],
                              ![i].pc = "done"]
             ELSE pair' = [pair EXCEPT
                              ![i].synth = Append(logged, [p.synth[1] EXCEPT
                                                              !.outcome = "pending"]),
                              ![i].attempt = p.attempt + 1]
    /\ UNCHANGED storeVars
    /\ PairUnchanged

\* the fetch of the k-th byte source of invocation i ends
PSilverFetchDone(i, k) ==
    /\ pair[i].pc = SilverPc(k)
    /\ \E ok \in BOOLEAN :
         LET p == pair[i]
             src == [SilverSource(k, p.goldImageUrl) EXCEPT !.bytes = IF ok THEN @ ELSE "none"]
         IN  IF ok
             THEN /\ uuids' = uuids + 1
                  /\ pair' = [pair EXCEPT ![i].fetches = Append(@, src),
                                          ![i].silverId = uuids + 1,
                                          ![i].pc = "silverUpload"]
             ELSE /\ UNCHANGED uuids
                  /\ IF NextSource(k) # 0
                     THEN pair' = [pair EXCEPT ![i].fetches = Append(@, src),
                                               ![i].pc = SilverPc(NextSource(k))]
                     ELSE pair' = [pair EXCEPT ![i].fetches = Append(@, src),
                                               ![i].silverImageUrl = SilverCatch(p.goldImageUrl).url,
                                               ![i].pc = "shopify"]
    /\ UNCHANGED r2calls
    /\ PairUnchanged

PSilverUploadDone(i) ==
    /\ pair[i].pc = "silverUpload"
    /\ LET p == pair[i]
           call == uploadImageToR2(p.fetches[Len(p.fetches)].bytes, SilverFilename(p.silverId),
                                   "silver-image", bucket, TRUE)
       IN  /\ r2calls' = Append(r2calls, call)
           /\ pair' = [pair EXCEPT ![i].uploads = Append(@, call),
                                   ![i].silverImageUrl = SilverReturn(call, p.goldImageUrl).url,
                                   ![i].pc = "shopify"]
    /\ UNCHANGED uuids
    /\ PairUnchanged

\* lines 129-190
PFinalDone(i) ==
    /\ pair[i].pc = "shopify"
    /\ pair' = [pair EXCEPT
                   ![i].response = [NoResponse EXCEPT
                                       !.status = 200, !.success = TRUE,
                                       !.goldImageUrl = pair[i].goldImageUrl,
                                       !.silverImageUrl = pair[i].silverImageUrl,
                                       !.story = pair[i].nameAndStory.story],
                   ![i].pc = "done"]
    /\ UNCHANGED storeVars
    /\ PairUnchanged

NextPair ==
    \E i \in Inv :
        \/ PFormDataDone(i)
        \/ PUploadOriginalDone(i)
        \/ PFetchTransformDone(i)
        \/ PLocalFallbackDone(i)
        \/ PVisionDone(i)
        \/ PGoldAttemptDone(i)
        \/ \E k \in 1..3 : PSilverFetchDone(i, k)
        \/ PSilverUploadDone(i)
        \/ PFinalDone(i)

SpecPair == InitPair /\ [][NextPair]_vars

(***************************************************************************)
(* utils/retry.ts: retryWithBackoff alone, on an operation that can        *)
(* succeed or throw at each call.                                          *)
(***************************************************************************)
MaxRetriesBound == 3

BaseDelays == {0, 1, DefaultBaseDelay}

\* what the awaited operation does: resolve, or throw an error of one of these kinds
OperationOutcomes == {"ok", "status", "abort", "malformed"}

\* retry.ts 5: attempt = 0 and the first operation() already called
InitRetry ==
    /\ NoRequest
    /\ parse = NoParse
    /\ route = NoRoute
    /\ built = NoBuilt
    /\ abort = NoAbort
    /\ pair = NoPair
    /\ shop = NoShop
    /\ resize = NoResize
    /\ \E n \in 0..MaxRetriesBound, d \in BaseDelays :
         retry = [state |-> "running", maxRetries |-> n, baseDelay |-> d, attempt |-> 0,
                  ops |-> <<[attempt |-> 0, startedAt |-> T0, endedAt |-> 0,
                             outcome |-> "pending"]>>,
                  waits |-> <<>>, wake |-> 0, lastError |-> <<>>, result |-> <<>>,
                  error |-> <<>>, endedAt |-> 0]

\* retry.ts 6-17: await operation() settles; the return, or the catch up to its
\* throw or its await of the timer
RetryAttemptDone ==
    /\ retry.state = "running"
    /\ now' = now + 1
    /\ \E o \in OperationOutcomes :
         LET k == Len(retry.ops)
             ops == [retry.ops EXCEPT ![k].endedAt = now', ![k].outcome = o]
             err == <<o, retry.attempt>>
         IN  IF o = "ok"
             THEN retry' = [retry EXCEPT !.state = "returned", !.ops = ops,
                                         !.result = <<"value", retry.attempt>>,
                                         !.endedAt = now']
             ELSE IF RetryExhausted(retry.attempt, retry.maxRetries)
             THEN retry' = [retry EXCEPT !.state = "threw", !.ops = ops,
                                         !.lastError = err, !.error = err,
                                         !.endedAt = now']
             ELSE retry' = [retry EXCEPT !.state = "sleeping", !.ops = ops,
                                         !.lastError = err,
                                         !.waits = Append(@, BackoffDelay(retry.attempt,
                                                                          retry.baseDelay)),
                                         !.wake = now' + BackoffDelay(retry.attempt,
                                                                      retry.baseDelay)]
    /\ HandlerUnchanged
    /\ UNCHANGED <<route, built, abort, pair, moreVars>>

\* retry.ts 18, 5, 21: the timer fires, attempt++, and either the next
\* operation() is called or the loop ends and lastError is thrown
RetrySleepDone ==
    /\ retry.state = "sleeping"
    /\ \E late \in 0..MaxJitter : now' = retry.wake + late
    /\ IF retry.attempt + 1 <= retry.maxRetries
       THEN retry' = [retry EXCEPT !.state = "running", !.attempt = @ + 1,
                                   !.ops = Append(@, [attempt |-> retry.attempt + 1,
                                                      startedAt |-> now', endedAt |-> 0,
                                                      outcome |-> "pending"])]
       ELSE retry' = [retry EXCEPT !.state = "threw", !.attempt = @ + 1,
                                   !.error = retry.lastError, !.endedAt = now']
    /\ HandlerUnchanged
    /\ UNCHANGED <<route, built, abort, pair, moreVars>>

NextRetry ==
    \/ RetryAttemptDone
    \/ RetrySleepDone

\* the operation settles and the timer fires: a pending step is eventually taken
SpecRetry == InitRetry /\ [][NextRetry]_vars /\ WF_vars(NextRetry)

(***************************************************************************)
(* The abort timers of generateGoldImage (fal.ts 13-61) and of             *)
(* generateGroqVisionPrompt (groqVision.ts), alone.  One attempt is: new   *)
(* AbortController, setTimeout(abort), await fetch, clearTimeout, await    *)
(* the body (text() or json()), and the catch with its clearTimeout.  A    *)
(* step that takes long takes one millisecond more than the limit.         *)
(***************************************************************************)
AbortFunctions == {"generateGoldImage", "generateGroqVisionPrompt"}

AbortLimit(fn) == IF fn = "generateGoldImage" THEN SynthTimeoutMs ELSE VisionTimeoutMs

\* new AbortController() and setTimeout(() => controller.abort(), limit) at time t
NewAttempt(a, t) ==
    LET k == Len(a.attempts) + 1
    IN  [a EXCEPT !.state = "running", !.phase = "fetching",
                  !.controllers = Append(@, [aborted |-> FALSE]),
                  !.timers = Append(@, [controller |-> k, armed |-> TRUE, fired |-> FALSE,
                                        firesAt |-> t + a.limit]),
                  !.attempts = Append(@, [issuedAt |-> t, endedAt |-> 0,
                                          outcome |-> "pending", controller |-> k,
                                          timer |-> k])]

InitAbort ==
    /\ NoRequest
    /\ parse = NoParse
    /\ route = NoRoute
    /\ built = NoBuilt
    /\ retry = NoRetry
    /\ pair = NoPair
    /\ shop = NoShop
    /\ resize = NoResize
    /\ \E fn \in AbortFunctions :
         abort = NewAttempt([fn |-> fn, limit |-> AbortLimit(fn), state |-> "running",
                             phase |-> "fetching", head |-> "", attempt |-> 0,
                             controllers |-> <<>>, timers |-> <<>>, attempts |-> <<>>,
                             wake |-> 0], T0)

\* no armed timer is due before t: the event loop would have run it first
NoTimerDue(t) ==
    \A i \in 1..Len(abort.timers) : abort.timers[i].armed => abort.timers[i].firesAt >= t

\* clearTimeout(timeoutId) of the attempt in progress
ClearTimeout(a) == [a EXCEPT !.timers[Len(a.attempts)].armed = FALSE]

\* the attempt in progress ends at time t with the given outcome: the catch (its
\* clearTimeout, then the rethrow into retryWithBackoff or the defaults of the
\* vision call) or the return
EndAttempt(a, t, outcome) ==
    LET k == Len(a.attempts)
        b == [ClearTimeout(a) EXCEPT !.attempts[k].endedAt = t,
                                     !.attempts[k].outcome = outcome,
                                     !.phase = "none"]
    IN  IF outcome = "ok" \/ a.fn = "generateGroqVisionPrompt"
        THEN [b EXCEPT !.state = "returned"]
        ELSE IF RetryExhausted(a.attempt, GoldMaxRetries)
        THEN [b EXCEPT !.state = "threw"]
        ELSE [b EXCEPT !.state = "sleeping",
                       !.wake = t + BackoffDelay(a.attempt, DefaultBaseDelay)]

AbortUnchanged ==
    /\ HandlerUnchanged
    /\ UNCHANGED <<route, built, retry, pair, moreVars>>

\* await fetch settles before the timer is due: the response head arrives (then
\* clearTimeout, fal.ts 40) or fetch rejects (then the catch)
AbortFetchSettles ==
    /\ abort.state = "running" /\ abort.phase = "fetching"
    /\ now' = now + 1
    /\ NoTimerDue(now')
    /\ \E o \in {"ok", "status", "transport"} :
         abort' = IF o = "transport"
                  THEN EndAttempt(abort, now', "transport")
                  ELSE [ClearTimeout(abort) EXCEPT !.phase = "reading", !.head = o]
    /\ AbortUnchanged

\* an armed timer runs: controller.abort(); a fetch in flight on that signal
\* rejects and the catch runs
AbortTimerFires(i) ==
    /\ i \in 1..Len(abort.timers)
    /\ abort.timers[i].armed
    /\ now' = abort.timers[i].firesAt
    /\ NoTimerDue(now')
    /\ LET c == abort.timers[i].controller
           a == [abort EXCEPT !.timers[i].armed = FALSE, !.timers[i].fired = TRUE,
                              !.controllers[c].aborted = TRUE]
       IN  abort' = IF abort.phase = "fetching" /\ abort.attempts[Len(abort.attempts)].controller = c
                    THEN EndAttempt(a, now', "timeout")
                    ELSE a
    /\ AbortUnchanged

\* await falResponse.text() / .json() settles, after any time: fal.ts 43-54
AbortBodyRead ==
    /\ abort.state = "running" /\ abort.phase = "reading"
    /\ \E slow \in BOOLEAN : now' = now + (IF slow THEN abort.limit + 1 ELSE 1)
    /\ NoTimerDue(now')
    /\ \E wellFormed \in BOOLEAN :
         abort' = EndAttempt(abort, now',
                             IF abort.head = "status" THEN "status"
                             ELSE IF wellFormed THEN "ok" ELSE "malformed")
    /\ AbortUnchanged

\* retry.ts 18: the backoff ends and operation() is called again
AbortBackoffDone ==
    /\ abort.state = "sleeping"
    /\ \E late \in 0..MaxJitter : now' = abort.wake + late
    /\ NoTimerDue(now')
    /\ abort' = NewAttempt([abort EXCEPT !.attempt = @ + 1], now')
    /\ AbortUnchanged

NextAbort ==
    \/ AbortFetchSettles
    \/ \E i \in 1..2 : AbortTimerFires(i)
    \/ AbortBodyRead
    \/ AbortBackoffDone

SpecAbort == InitAbort /\ [][NextAbort]_vars

(***************************************************************************)
(* parseJsonFromContent alone, on contents that reach each of its four     *)
(* strategies and its throw.                                               *)
(***************************************************************************)
CascadeBodies == {<<"{", "name:Lion", "}">>, <<"[", "42", "]">>, <<"null">>, <<"Here">>,
                  <<"{">>, <<"[">>, <<>>}

CascadeProse == {<<>>, <<" ", "Here", " ">>, <<" ", "[", "42", "]", " ">>,
                 <<" ", "{", "Here", "}", " ">>, <<" ", "}", " ">>, <<" ", "]", " ">>}

\* the message contents: text, a value, text, bare or inside a code fence
Contents ==
    LET texts == {a \o v \o b : a \in CascadeProse, v \in CascadeBodies, b \in CascadeProse}
    IN  texts \cup {Fenced("json", t) : t \in texts}

InitCascade ==
    /\ NoRequest
    /\ route = NoRoute
    /\ built = NoBuilt
    /\ retry = NoRetry
    /\ abort = NoAbort
    /\ pair = NoPair
    /\ shop = NoShop
    /\ resize = NoResize
    /\ \E c \in Contents : parse = [NoParse EXCEPT !.content = c]

\* parseJsonFromContent(content)
ParseContent ==
    /\ parse.step = 0
    /\ parse' = [parse EXCEPT !.step = 4,
                              !.strategy = ParseStrategy(parse.content),
                              !.result = parseJsonFromContent(parse.content)]
    /\ UNCHANGED <<envVars, soloVars, moreVars, passed, transform, route, local, storeVars, preVars, visionVars,
                   goldVars, silverVars, response, inflight, events, calls, marks, now, pc>>

NextCascade == ParseContent

SpecCascade == InitCascade /\ [][NextCascade]_vars

(***************************************************************************)
(* services/shopify/createProduct.ts: createShopifyProduct alone.  A       *)
(* variant is named by its option1; a variant_ids of {} stands for         *)
(* undefined.                                                              *)
(***************************************************************************)
VariantOptions == {"Brass & Resin", "Sterling Silver", "Gold Vermeil", "14K Gold"}

StoreUrls == {<<"https://shop.example">>, <<"https://shop.example", "/admin">>}

\* String.prototype.replace with a string pattern: the first occurrence only
ReplaceFirst(str, pat, by) ==
    LET i == IndexOf(str, pat)
    IN  IF i = 0 THEN str
        ELSE SubSeq(str, 1, i - 1) \o by \o SubSeq(str, i + 1, Len(str))

\* how shopifyFetch can end: the parsed body, a non-2xx status, a rejected fetch,
\* a 2xx body that is no JSON
ShopifyFailures == {"status", "transport", "badjson"}

\* the bodies of a 2xx answer to POST /products.json: no product member, a
\* product without a variants array, a product with some of the four variants
CreateBodies ==
    {[product |-> FALSE, variants |-> FALSE, options |-> {}],
     [product |-> TRUE, variants |-> FALSE, options |-> {}]}
    \cup {[product |-> TRUE, variants |-> TRUE, options |-> v] : v \in SUBSET VariantOptions}

ShopCall(kind, method, endpoint) ==
    [kind |-> kind, method |-> method, endpoint |-> endpoint, outcome |-> "pending"]

\* lines 152-175: the images of the PUT, each with the variants it is shown for
UpdatedImages(options) ==
    [silver |-> options \cap {"Sterling Silver"},
     gold |-> options \cap {"14K Gold", "Gold Vermeil", "Brass & Resin"},
     sizeReference |-> {}]

\* lines 207-211
ProductData(storeUrl) ==
    [url |-> ReplaceFirst(storeUrl, "/admin", <<>>) \o <<"/products/", "lion-charm">>,
     productId |-> 7, handle |-> "lion-charm"]

\* mutant: the catch around the collection call rethrows
CollectCatch_Rethrows == [threw |-> TRUE]

\* lines 200-203: the error of the collection call is logged and dropped
CollectCatch == [threw |-> FALSE]

InitShopify ==
    /\ NoRequest
    /\ parse = NoParse
    /\ route = NoRoute
    /\ built = NoBuilt
    /\ retry = NoRetry
    /\ abort = NoAbort
    /\ pair = NoPair
    /\ resize = NoResize
    /\ \E g \in BOOLEAN, u \in StoreUrls :
         shop = [state |-> "create", publicGallery |-> g, storeUrl |-> u,
                 calls |-> <<ShopCall("create", "POST", "/products.json")>>,
                 body |-> [product |-> FALSE, variants |-> FALSE, options |-> {}],
                 images |-> UpdatedImages({}), result |-> <<>>]

ShopUnchanged ==
    /\ HandlerUnchanged
    /\ UNCHANGED <<now, route, built, retry, abort, pair, resize>>

\* await shopifyFetch(POST /products.json), lines 131-185, up to the PUT
ShopCreateDone ==
    /\ shop.state = "create"
    /\ \/ \E f \in ShopifyFailures :
            shop' = [shop EXCEPT !.state = "threw", !.calls[1].outcome = f]
       \/ \E b \in CreateBodies :
            IF b.product /\ b.variants
            THEN shop' = [shop EXCEPT !.state = "assign", !.calls[1].outcome = "ok",
                                      !.body = b, !.images = UpdatedImages(b.options),
                                      !.calls = Append(@, ShopCall("assign", "PUT",
                                                                   "/products/7.json"))]
            ELSE shop' = [shop EXCEPT !.state = "threw", !.calls[1].outcome = "ok",
                                      !.body = b]
    /\ ShopUnchanged

\* await shopifyFetch(PUT), lines 177-205: the collection call, or the return
ShopAssignDone ==
    /\ shop.state = "assign"
    /\ \E o \in {"ok"} \cup ShopifyFailures :
         IF o # "ok"
         THEN shop' = [shop EXCEPT !.state = "threw", !.calls[2].outcome = o]
         ELSE IF shop.publicGallery
         THEN shop' = [shop EXCEPT !.state = "collect", !.calls[2].outcome = o,
                                   !.calls = Append(@, ShopCall("collect", "POST",
                                                                "/collects.json"))]
         ELSE shop' = [shop EXCEPT !.state = "returned", !.calls[2].outcome = o,
                                   !.result = ProductData(shop.storeUrl)]
    /\ ShopUnchanged

\* await shopifyFetch(POST /collects.json) inside its try, lines 190-211
ShopCollectDone ==
    /\ shop.state = "collect"
    /\ \E o \in {"ok"} \cup ShopifyFailures :
         IF o # "ok" /\ CollectCatch.threw
         THEN shop' = [shop EXCEPT !.state = "threw", !.calls[3].outcome = o]
         ELSE shop' = [shop EXCEPT !.state = "returned", !.calls[3].outcome = o,
                                   !.result = ProductData(shop.storeUrl)]
    /\ ShopUnchanged

NextShopify ==
    \/ ShopCreateDone
    \/ ShopAssignDone
    \/ ShopCollectDone

SpecShopify == InitShopify /\ [][NextShopify]_vars

(***************************************************************************)
(* services/images/localFallback.ts: bilinearResize alone, one step per    *)
(* destination pixel.  The source is a test image whose pixels are told    *)
(* apart by their colour, and dstData is followed at the pixel written     *)
(* last.  srcX = dstX * (srcWidth / dstWidth) is followed                  *)
(* as the fraction dstX * srcWidth / dstWidth; where the quotient          *)
(* srcWidth / dstWidth has no exact double, a product that is a whole      *)
(* number k may have been rounded to just under k, and a value that is     *)
(* halfway between two bytes may be stored as either.                      *)
(***************************************************************************)
MaxResizeSide == 4     \* source sides range over 1.., destination sides over 0..

Patterns == {"ramp", "checks"}

\* srcData at column x of row y
SrcData(pattern, x, y) ==
    IF pattern = "ramp"
    THEN <<50 * x + 10 * y, 255 - 50 * x - 10 * y, 30 * ((x + y) % 8), 255>>
    ELSE IF (x + y) % 2 = 0 THEN <<0, 0, 0, 255>> ELSE <<255, 255, 255, 0>>

RECURSIVE Gcd(_, _)
Gcd(a, b) == IF b = 0 THEN a ELSE Gcd(b, a % b)

\* src / dst is a double exactly: in lowest terms its denominator is a power of two
ExactRatio(src, dst) == (dst \div Gcd(src, dst)) \in {1, 2, 4, 8, 16}

\* lines 13-17: the values Math.floor(dst * (src / dstSize)) can take
FirstSamples(d, src, dstSize) ==
    LET k == (d * src) \div dstSize
    IN  IF (d * src) % dstSize = 0 /\ k >= 1 /\ ~ExactRatio(src, dstSize)
        THEN {k - 1, k}
        ELSE {k}

\* mutant: the second sample is not clamped
SecondSample_Unclamped(first, size) == first + 1

\* lines 18-19: Math.min(src0 + 1, size - 1)
SecondSample(first, size) == IF first + 1 < size - 1 THEN first + 1 ELSE size - 1

\* lines 27-35 for one channel, as the fraction num / (dstWidth * dstHeight): xn and yn
\* are the weights times dstWidth and dstHeight
Interpolated(tl, tr, bl, br, xn, yn, dw, dh) ==
    (tl * (dw - xn) + tr * xn) * (dh - yn) + (bl * (dw - xn) + br * xn) * yn

\* the store into a Uint8ClampedArray: the nearest byte, a half going to the even one
Stored(num, den, exact) ==
    LET f == num \div den
    IN  IF 2 * (num % den) < den THEN {f}
        ELSE IF 2 * (num % den) > den THEN {f + 1}
        ELSE IF ~exact THEN {f, f + 1}
        ELSE IF f % 2 = 0 THEN {f} ELSE {f + 1}

NoSample == [x0 |-> 0, x1 |-> 0, y0 |-> 0, y1 |-> 0]

\* bilinearResize has been called: lines 7-9
InitResize ==
    /\ NoRequest
    /\ parse = NoParse
    /\ route = NoRoute
    /\ built = NoBuilt
    /\ retry = NoRetry
    /\ abort = NoAbort
    /\ pair = NoPair
    /\ shop = NoShop
    /\ \E sw \in 1..MaxResizeSide, sh \in 1..MaxResizeSide,
          dw \in 0..MaxResizeSide, dh \in 0..MaxResizeSide, p \in Patterns :
         resize = [step |-> "loop", pattern |-> p, srcWidth |-> sw, srcHeight |-> sh,
                   dstWidth |-> dw, dstHeight |-> dh, dstX |-> 0, dstY |-> 0,
                   sampled |-> FALSE, sample |-> NoSample, written |-> 0,
                   lastX |-> 0, lastY |-> 0, lastPixel |-> <<0, 0, 0, 0>>]

ResizeUnchanged ==
    /\ HandlerUnchanged
    /\ UNCHANGED <<now, route, built, retry, abort, pair, shop>>

\* lines 11-36: the body of the two loops for the pixel dstX of the row dstY
ResizePixel ==
    /\ resize.step = "loop"
    /\ resize.dstY < resize.dstHeight
    /\ resize.dstX < resize.dstWidth
    /\ \E x0 \in FirstSamples(resize.dstX, resize.srcWidth, resize.dstWidth),
          y0 \in FirstSamples(resize.dstY, resize.srcHeight, resize.dstHeight) :
         LET sw == resize.srcWidth
             sh == resize.srcHeight
             dw == resize.dstWidth
             dh == resize.dstHeight
             x1 == SecondSample(x0, sw)
             y1 == SecondSample(y0, sh)
             xn == resize.dstX * sw - x0 * dw
             yn == resize.dstY * sh - y0 * dh
             exact == ExactRatio(sw, dw) /\ ExactRatio(sh, dh)
             Src(x, y) == IF x \in 0..(sw - 1) /\ y \in 0..(sh - 1)
                          THEN SrcData(resize.pattern, x, y)
                          ELSE <<0, 0, 0, 0>>
             Num(c) == Interpolated(Src(x0, y0)[c], Src(x1, y0)[c], Src(x0, y1)[c],
                                    Src(x1, y1)[c], xn, yn, dw, dh)
             last == resize.dstX + 1 = dw
         IN  \E r \in Stored(Num(1), dw * dh, exact), g \in Stored(Num(2), dw * dh, exact),
                b \in Stored(Num(3), dw * dh, exact), a \in Stored(Num(4), dw * dh, exact) :
               resize' = [resize EXCEPT
                      !.sampled = TRUE,
                      !.sample = [x0 |-> x0, x1 |-> x1, y0 |-> y0, y1 |-> y1],
                      !.written = @ + 1,
                      !.lastX = resize.dstX, !.lastY = resize.dstY,
                      !.lastPixel = <<r, g, b, a>>,
                      !.dstX = IF last THEN 0 ELSE @ + 1,
                      !.dstY = IF last THEN @ + 1 ELSE @]
    /\ ResizeUnchanged

\* line 39: both loops are over
ResizeReturn ==
    /\ resize.step = "loop"
    /\ resize.dstY >= resize.dstHeight \/ resize.dstWidth = 0
    /\ resize' = [resize EXCEPT !.step = "returned"]
    /\ ResizeUnchanged

NextResize == ResizePixel \/ ResizeReturn

SpecResize == InitResize /\ [][NextResize]_vars

(***************************************************************************)
(* Properties.                                                             *)
(***************************************************************************)
Happened(e) == \E i \in 1..Len(events) : events[i] = e

SilverPcs == {"silver1", "silver2", "silver3", "silverUpload"}

\* the uploadImageToR2 calls convertToGreyscale made
SilverCalls == SelectSeq(r2calls, LAMBDA c : EndsWith(c.filename, <<"-silver.jpg">>))

SomeFetchSucceeded == fetches # <<>> /\ fetches[Len(fetches)].bytes # "none"
AllFetchesFailed == Len(fetches) = 3 /\ \A i \in 1..3 : fetches[i].bytes = "none"

C2_StorageDownReturnsGold ==
    (/\ Happened("ret:silver")
     /\ SomeFetchSucceeded
     /\ Len(SilverCalls) = 1
     /\ SilverCalls[1].put \in {"none", "failed"})
    => silverImageUrl = goldImageUrl

\* C3 (as stated): an error response reaches the caller only when validation failed
\* or generateGoldImage failed after its retry; the failure of any other call is
\* absorbed.
C3_OnlyValidationOrSynthesisFail ==
    /\ response.status = 400 => (req.image = "" \/ req.email = <<>>)
    /\ response.status = 500 => (response.from = "gold" /\ Happened("fail:synthesis"))

\* C3 (amended): an error response reaches the caller only when validation failed
\* (400), or, as a 500, when the form body could not be parsed, the image bytes
\* could not be read, the vision output carried a prompt that is no string,
\* generateGoldImage failed after its retry, createShopifyProduct failed or
\* saveGenerationRow failed.  The failures of the original upload, the transform
\* fetch, the local fallback, the vision call and the silver derivation are
\* absorbed: none of them is the origin of an error response.
C3_ErrorOrigins ==
    /\ response.status \in {0, 200, 400, 500}
    /\ (pc = "done") = (response.status # 0)
    /\ response.status = 400 => (req.image = "" \/ req.email = <<>>)
    /\ response.status = 500 =>
          /\ response.from \in {"formData", "arrayBuffer", "vision", "gold", "shopify", "save"}
          /\ response.from = "vision" => visionResult.prompt.t # "string"
          /\ response.from = "gold" =>
                /\ Happened("fail:synthesis")
                /\ Len(synth) = GoldMaxRetries + 1
                /\ \A i \in 1..Len(synth) : synth[i].outcome \notin {"ok", "pending"}
    /\ response.status = 200 => response.success

\* every absorbed failure at once, and still the success response
C3_Witness ==
    /\ response.status = 200
    /\ r2calls[1].put = "failed"
    /\ grayscale1024Base64 = "original-base64"
    /\ visionCall.kind = "transport"
    /\ AllFetchesFailed

\* C4: with one retry and base delay d = 1000 ms, a synthesis call whose every
\* attempt fails makes exactly two attempts, the second issued no earlier than d
\* after the first failed, and then the error propagates; there is no third attempt.
C4_TwoAttemptsBackoff ==
    /\ Len(synth) <= 2
    /\ Len(synth) = 2 =>
          /\ synth[1].outcome \notin {"ok", "pending"}
          /\ synth[2].issuedAt >= synth[1].endedAt + DefaultBaseDelay
    /\ Happened("fail:synthesis") =>
          /\ Len(synth) = 2
          /\ synth[2].outcome \notin {"ok", "pending"}
          /\ response.status = 500
          /\ pc = "done"
    /\ (Len(synth) = 1 /\ synth[1].outcome \notin {"ok", "pending"}) => pc = "backoff"

C4_Witness ==
    /\ Happened("fail:synthesis")
    /\ Len(synth) = 2
    /\ synth[2].issuedAt > synth[1].endedAt + DefaultBaseDelay

\* C5: when the synthesis service answers HTTP 500 on both attempts, the handler
\* answers 500 and the details of its response contain "500" and the body of the
\* failing synthesis response.
C5_Status500Surfaced ==
    (/\ Len(synth) = 2
     /\ \A i \in 1..2 : synth[i].outcome = "status" /\ synth[i].status = "500")
    => /\ pc = "done"
       /\ response.status = 500
       /\ ~response.success
       /\ Contains(response.details, <<"500">>)
       /\ Contains(response.details, synth[2].body)
       /\ EndsWith(response.details, synth[2].body)
       /\ ~Happened("call:silver")

C5_Witness ==
    /\ Len(synth) = 2
    /\ synth[1].outcome = "status" /\ synth[1].body = <<"overloaded">>
    /\ synth[2].outcome = "status" /\ synth[2].body = <<"bad", " ", "gateway">>
    /\ response.status = 500

\* the vision call failed: the abort timer fired, the status was not 2xx, the
\* transport or the body failed, or no strategy parses the content
C6_CallFailed ==
    \/ visionCall.kind \in {"timeout", "status", "transport", "badjson"}
    \/ visionCall.kind = "content" /\ ParseStrategy(visionCall.content) = 0

\* C6: generateGroqVisionPrompt never throws, and when the call times out, answers
\* a non-2xx status, fails in transport or returns content no strategy parses, the
\* Description is exactly the default triplet.
C6_VisionFailureGivesDefaults ==
    /\ visionCall.kind # "none" => Happened("ret:vision")
    /\ C6_CallFailed =>
          /\ visionResult.productName = JStr(TheDefaultName)
          /\ visionResult.story = JStr(TheDefaultStory)
          /\ visionResult.prompt = JStr(TheDefaultPrompt)
          /\ response.from # "vision"

C6_Witness ==
    /\ visionCall.kind = "timeout"
    /\ now >= T0 + VisionTimeoutMs
    /\ visionResult = DefaultDescription
    /\ pc = "gold"

\* the position of the first event e, 0 when it has not happened
At(e) == IF Happened(e) THEN CHOOSE i \in 1..Len(events) : events[i] = e /\ \A j \in 1..(i - 1) : events[j] # e ELSE 0

\* C7: the stages of one request run strictly one after the other: the synthesis
\* request is never issued while the vision stage has yet to return, the silver
\* derivation never starts before the synthesis returned a gold URL, and no two
\* stages are in flight at once.
C7_StagesStrictlySequential ==
    /\ Cardinality(inflight) <= 1
    /\ Happened("call:synthesis") =>
          \A j \in (At("call:synthesis") + 1)..Len(events) :
              events[j] \notin {"call:vision", "ret:vision"}
    /\ Happened("call:silver") =>
          /\ Happened("ret:synthesis")
          /\ At("ret:synthesis") < At("call:silver")
          /\ goldImageUrl # NoUrl

\* C8: convertToGreyscale requests its sources in the order transformation URL,
\* gold URL with the fetch option, gold URL unmodified; source k only after every
\* source before it failed, each at most once; the bytes of the first source that
\* succeeded are handed to storage exactly once, under a fresh -silver filename
\* with the silver tag.
C8_SourcesInOrder ==
    /\ Len(fetches) <= 3
    /\ \A i \in 1..Len(fetches) :
          /\ fetches[i].source = i
          /\ i < Len(fetches) => fetches[i].bytes = "none"
    /\ Len(fetches) >= 1 => fetches[1].url = TransformationUrl(goldImageUrl) /\ fetches[1].cf = ""
    /\ Len(fetches) >= 2 => fetches[2].url = goldImageUrl /\ fetches[2].cf = "saturation=0,format=jpeg"
    /\ Len(fetches) >= 3 => fetches[3].url = goldImageUrl /\ fetches[3].cf = ""
    /\ Len(SilverCalls) <= 1
    /\ Len(SelectSeq(calls, LAMBDA c : c = "put:silver")) <= 1
    /\ Len(SilverCalls) = 1 =>
          /\ SomeFetchSucceeded
          /\ SilverCalls[1].bytes = fetches[Len(fetches)].bytes
          /\ SilverCalls[1].bytes =
                (CASE Len(fetches) = 1 -> "transformed" [] Len(fetches) = 2 -> "cf-image"
                   [] OTHER -> "gold-bytes")
          /\ SilverCalls[1].type = "silver-image"
          /\ \A i \in 1..Len(r2calls) :
                r2calls[i].filename = SilverCalls[1].filename => r2calls[i] = SilverCalls[1]
          /\ Len(r2calls) = 2 /\ r2calls[1].filename # r2calls[2].filename
    /\ (Happened("ret:silver") /\ SomeFetchSucceeded) => Len(SilverCalls) = 1
    /\ AllFetchesFailed => Len(SilverCalls) = 0

C8_Witness ==
    /\ Happened("ret:silver")
    /\ Len(fetches) = 2
    /\ Len(SilverCalls) = 1
    /\ SilverCalls[1].put = "ok"
    /\ SilverCalls[1].bytes = "cf-image"

\* C9: when both transformation requests fail but the gold URL can be fetched and
\* the storage write succeeds, convertToGreyscale fetches the gold bytes unmodified,
\* uploads them, and returns the public URL of the new silver object, not the gold
\* URL.
C9_FallsThroughToGoldBytes ==
    (/\ Happened("ret:silver")
     /\ Len(fetches) = 3
     /\ fetches[3].bytes # "none"
     /\ Len(SilverCalls) = 1
     /\ SilverCalls[1].put = "ok")
    => /\ fetches[3].url = goldImageUrl /\ fetches[3].cf = ""
       /\ SilverCalls[1].bytes = "gold-bytes"
       /\ silverImageUrl = PublicUrl(SilverCalls[1].filename)
       /\ EndsWith(silverImageUrl, <<"-silver.jpg">>)
       /\ silverImageUrl # goldImageUrl

C9_Witness ==
    /\ Happened("ret:silver")
    /\ Len(fetches) = 3
    /\ fetches[3].bytes = "gold-bytes"
    /\ Len(SilverCalls) = 1
    /\ SilverCalls[1].put = "ok"
    /\ goldImageUrl = GoldUrl

\* the instruction generateGoldImage was called with
Instruction == visionResult.prompt

HasText(s) == \E i \in 1..Len(s) : s[i] # " "

\* C10 (as stated): a non-empty instruction is the prompt of the request body
\* verbatim on every attempt; an empty or missing one gives the default literal.
C10_NonEmptyVerbatim ==
    \A i \in 1..Len(synth) :
        /\ (Instruction.t = "string" /\ Instruction.v # <<>>) => synth[i].prompt = Instruction.v
        /\ (Instruction.t = "undefined" \/ Instruction.v = <<>>) => synth[i].prompt = TheDefaultPrompt

\* C10 (amended): an instruction with a character that is not whitespace is the
\* prompt of the request body verbatim (untrimmed) on every attempt; an empty,
\* whitespace-only or missing instruction gives the default literal.
C10_NonBlankVerbatim ==
    \A i \in 1..Len(synth) :
        /\ (Instruction.t = "string" /\ HasText(Instruction.v)) => synth[i].prompt = Instruction.v
        /\ (Instruction.t = "undefined" \/ ~HasText(Instruction.v)) => synth[i].prompt = TheDefaultPrompt

C10_Witness ==
    /\ Len(synth) = 2
    /\ Instruction = JStr(<<" ", "a", " ", "dog", " ">>)
    /\ synth[2].prompt = <<" ", "a", " ", "dog", " ">>

MissingField == req.image = "" \/ req.email = <<>>

\* C11 (as stated): when the caller supplied a non-empty story, the summary used
\* downstream is that story verbatim, while the label and the synthesis instruction
\* are those of the vision stage (parsed, or its defaults).
C11_OverrideOnlySummary ==
    (req.story # <<>> /\ nameAndStory.story # JUndefined) =>
        /\ nameAndStory.story = JStr(req.story)
        /\ nameAndStory.productName = visionResult.productName
        /\ visionResult = generateGroqVisionPrompt(visionCall).value
        /\ \A i \in 1..Len(synth) : synth[i].prompt = ResolvePrompt(visionResult.prompt)

\* C11 (amended): when the caller supplied a non-empty story, the summary used
\* downstream is that story verbatim and the label is reset to the literal Custom
\* Charm, whatever label the vision stage produced; the synthesis instruction is
\* still the one of the vision stage (parsed, or its default).
C11_OverrideSummaryResetsLabel ==
    (req.story # <<>> /\ nameAndStory.story # JUndefined) =>
        /\ nameAndStory.story = JStr(req.story)
        /\ nameAndStory.productName = JStr(TheDefaultName)
        /\ visionResult = generateGroqVisionPrompt(visionCall).value
        /\ \A i \in 1..Len(synth) : synth[i].prompt = ResolvePrompt(visionResult.prompt)
        /\ response.status = 200 => response.story = JStr(req.story)

C11_Witness ==
    /\ req.story = <<"my", " ", "story">>
    /\ response.status = 200
    /\ response.story = JStr(<<"my", " ", "story">>)
    /\ visionResult.productName = JStr(<<"Lion", " ", "Heart">>)
    /\ nameAndStory.productName = JStr(TheDefaultName)
    /\ synth[1].prompt = LionPrompt

\* C12: a request without its image or its email is answered 400 with success false
\* as soon as the form is parsed; no storage write, transform fetch, vision,
\* synthesis, commerce or persistence call is made for it, and nothing is retried.
C12_MissingFieldRejected ==
    /\ MissingField =>
          \/ pc = "formData"
          \/ pc = "done" /\ (response.status = 400 \/ response.from = "formData")
    /\ MissingField =>
          /\ calls = <<"formData">>
          /\ r2calls = <<>> /\ uuids = 0
          /\ synth = <<>> /\ attempt = 0 /\ wake = 0
          /\ fetches = <<>>
          /\ events = <<>> /\ inflight = {}
          /\ visionCall = NoVisionCall
    /\ response.status = 400 =>
          /\ MissingField
          /\ ~response.success
          /\ response.error # <<>>
          /\ now = T0 + 1

C12_Witness ==
    /\ response.status = 400
    /\ req.email = <<>>
    /\ req.image # ""
    /\ pc = "done"

\* C13: the Preprocessor never ends the run: after a failed transform fetch the
\* local fallback runs, and when the fallback throws while decoding, resizing or
\* encoding it answers the original bytes as base64; in every case there is a
\* working image and the vision stage is entered.
C13_PreprocessorNeverAborts ==
    /\ response.from \notin {"fetchTransform", "localFallback"}
    /\ pc = "localFallback" => (Happened("call:preprocess") /\ ~Happened("ret:preprocess"))
    /\ (Happened("call:preprocess") /\ pc \notin {"fetchTransform", "localFallback"}) =>
          /\ Happened("ret:preprocess")
          /\ Happened("call:vision")
          /\ grayscale1024Base64 \in {"cloudflare-1024", "local-1024", "original-base64"}
          /\ (local.step = "returned") =
                (visionInputKind = "local_fallback_grayscale_1024_pad_white_jpeg")
          /\ local.step # "returned" => grayscale1024Base64 = "cloudflare-1024"
          /\ (local.step = "returned" /\ local.thrownAt = "none") =>
                grayscale1024Base64 = "local-1024"
          /\ (local.step = "returned" /\ local.thrownAt # "none") =>
                grayscale1024Base64 = "original-base64"

C13_Witness ==
    /\ local.step = "returned"
    /\ local.thrownAt = "encode"
    /\ grayscale1024Base64 = "original-base64"
    /\ pc = "vision"

\* C14: every success response carries one gold URL and one silver URL, both
\* non-empty; a run that obtained no gold URL never reaches the success response;
\* a run that obtained a gold URL never ends because of the silver stage.
C14_OneGoldOneSilver ==
    /\ response.status = 200 =>
          /\ response.goldImageUrl \notin {<<>>, NoUrl}
          /\ response.silverImageUrl \notin {<<>>, NoUrl}
    /\ (pc = "done" /\ goldImageUrl \in {<<>>, NoUrl}) => response.status # 200
    /\ response.from \notin SilverPcs

Populated(x) == x.t \notin {"undefined", "null"} /\ x.v # <<>>

\* C15: the Description generateGroqVisionPrompt returns is fully populated: for
\* every vision response each of label, summary and instruction is non-empty, and
\* a field missing or empty in the parsed output takes its literal default while
\* the other parsed fields are kept.
C15_DescriptionFullyPopulated ==
    Happened("ret:vision") =>
        LET parsed == parseJsonFromContent(visionCall.content)
            answered == visionCall.kind = "content" /\ parsed.ok
        IN  /\ Populated(visionResult.productName)
            /\ Populated(visionResult.story)
            /\ Populated(visionResult.prompt)
            /\ visionResult.productName =
                  IF answered /\ Populated(parsed.productName) THEN parsed.productName
                  ELSE JStr(TheDefaultName)
            /\ visionResult.story =
                  IF answered /\ Populated(parsed.story) THEN parsed.story
                  ELSE JStr(TheDefaultStory)
            /\ visionResult.prompt =
                  IF answered /\ Populated(parsed.prompt) THEN parsed.prompt
                  ELSE JStr(TheDefaultPrompt)

Placed ==
    \/ local.step \in {"placed", "grey"}
    \/ local.step = "returned" /\ local.thrownAt \in {"none", "encode"} /\ local.canvasPixels # 0

\* C17: for every decoded width and height the canvas of the local fallback is
\* target x target pixels; the scaled image has its longer side equal to the
\* target and sits at the offsets floor((target - scaledWidth) / 2) and
\* floor((target - scaledHeight) / 2); both offsets are at least 0, offset plus
\* scaled size is at most the target on each axis, and every pixel outside the
\* placed image is padding.
C17_CanvasGeometry ==
    Placed =>
        /\ local.canvasPixels = TargetSize * TargetSize
        /\ local.image.width > local.image.height => local.scaledWidth = TargetSize
        /\ local.image.width <= local.image.height => local.scaledHeight = TargetSize
        /\ local.scaledWidth \in 0..TargetSize /\ local.scaledHeight \in 0..TargetSize
        /\ 2 * local.offsetX <= TargetSize - local.scaledWidth
        /\ 2 * local.offsetX + 1 >= TargetSize - local.scaledWidth
        /\ 2 * local.offsetY <= TargetSize - local.scaledHeight
        /\ 2 * local.offsetY + 1 >= TargetSize - local.scaledHeight
        /\ local.offsetX >= 0 /\ local.offsetY >= 0
        /\ local.offsetX + local.scaledWidth <= TargetSize
        /\ local.offsetY + local.scaledHeight <= TargetSize
        /\ local.covered =
              /\ local.px \in local.offsetX..(local.offsetX + local.scaledWidth - 1)
              /\ local.py \in local.offsetY..(local.offsetY + local.scaledHeight - 1)
        /\ ~local.covered => local.before = White
        /\ (local.step = "returned" /\ local.thrownAt = "none") =>
              local.encodedWidth = TargetSize /\ local.encodedHeight = TargetSize

C17_Witness ==
    /\ local.step = "placed"
    /\ local.image = [width |-> 1, height |-> 3]
    /\ local.scaledWidth = 341 /\ local.scaledHeight = TargetSize
    /\ local.offsetX = 341 /\ local.offsetY = 0
    /\ local.px = 340 /\ local.py = 0
    /\ ~local.covered
    /\ local.before = White

\* C18: after the greyscale step of the local fallback every pixel <<r, g, b, a>>
\* of the canvas is <<y, y, y, a>> with y = round(0.299 r + 0.587 g + 0.114 b) of
\* its values before the step; alpha is unchanged and y is within 0..255.
C18_GreyscaleLuma ==
    (Placed /\ local.step # "placed") =>
        LET p == local.before
            y == (299 * p[1] + 587 * p[2] + 114 * p[3] + 500) \div 1000
        IN  /\ local.after = <<y, y, y, p[4]>>
            /\ y \in 0..255

C18_Witness ==
    /\ local.step = "grey"
    /\ local.covered
    /\ local.before = <<255, 0, 0, 128>>
    /\ local.after = <<76, 76, 76, 128>>

\* the last attempt of the synthesis call
LastAttempt == synth[Len(synth)]

\* C19 (as stated): every terminal synthesis failure, by status, by timeout or by
\* transport error, is answered 500 with details that carry the HTTP status and
\* the body of the failing synthesis response.
C19_TerminalFailureCarriesStatusBody ==
    Happened("fail:synthesis") =>
        /\ response.status = 500
        /\ LastAttempt.status # ""
        /\ Contains(response.details, <<LastAttempt.status>>)
        /\ EndsWith(response.details, LastAttempt.body)

\* C19 (amended): every terminal synthesis failure is answered 500 with the
\* message of the error of the last attempt as details: after a non-2xx answer
\* that message carries the status and the body of that answer; after a timeout,
\* a transport error or a 2xx answer without an image URL there is no failing
\* response, and the details carry the message of the abort, network or type
\* error, with no status and no body.
C19_TerminalFailureCarriesLastError ==
    Happened("fail:synthesis") =>
        /\ response.status = 500
        /\ ~response.success
        /\ response.from = "gold"
        /\ LastAttempt.outcome \in {"status", "timeout", "transport", "malformed"}
        /\ LastAttempt.outcome = "status" =>
              /\ LastAttempt.status = "500"
              /\ Contains(response.details, <<"error:", " ", "500", " ", "-", " ">>)
              /\ EndsWith(response.details, <<" ", "-", " ">> \o LastAttempt.body)
        /\ LastAttempt.outcome # "status" =>
              /\ LastAttempt.status = ""
              /\ ~Contains(response.details, <<"500">>)
              /\ response.details # <<>>
        /\ LastAttempt.outcome = "timeout" =>
              response.details = <<"The", " ", "operation", " ", "was", " ", "aborted">>

C19_Witness ==
    /\ Happened("fail:synthesis")
    /\ synth[1].outcome = "status" /\ synth[1].body = <<"overloaded">>
    /\ synth[2].outcome = "timeout"
    /\ response.details = <<"The", " ", "operation", " ", "was", " ", "aborted">>

\* C20: uploadImageToR2 never throws and always returns a URL that ends in the
\* filename it was given: the public bucket URL when the put succeeded, the
\* placeholder URL of that filename when the binding is missing or the put failed;
\* without a binding no put is attempted.
C20_UploadNeverThrows ==
    /\ response.from \notin {"uploadOriginal", "silverUpload"}
    /\ \A i \in 1..Len(r2calls) :
          LET c == r2calls[i]
          IN  /\ ~c.threw
              /\ EndsWith(c.url, c.filename)
              /\ c.put \in {"ok", "failed", "none"}
              /\ c.put = "ok" =>
                    c.url = <<"https://pub-a60a2e7f4821493380ef9f646ab6b33c.r2.dev/">> \o c.filename
              /\ c.put \in {"failed", "none"} =>
                    c.url = <<"https://storage.example.com/uploads/">> \o c.filename
              /\ (c.put = "none") = ~bucket
              /\ \A j \in 1..Len(r2calls) :
                    (r2calls[j].filename = c.filename /\ r2calls[j].put # "ok" /\ c.put # "ok")
                    => r2calls[j].url = c.url
    /\ ~bucket => \A i \in 1..Len(calls) : calls[i] \notin {"put:original", "put:silver"}

C20_Witness ==
    /\ Len(r2calls) = 2
    /\ r2calls[1].put = "failed"
    /\ r2calls[1].url = PlaceholderUrl(UUID(1) \o <<".jpg">>)
    /\ r2calls[2].put = "ok"
    /\ silverImageUrl = PublicUrl(SilverFilename(2))

\* the parameter of an option in the list: present when the predicate holds of it
C21_Param(present, name, x) == IF present THEN <<<<name>> \o x.v>> ELSE <<>>

Supplied(x) == x # JUndefined

\* C21 (as stated): buildCloudflareImageTransformUrl returns the base path, the
\* comma-separated parameters, a slash and the source URL; the parameters come in
\* the order saturation, width, height, fit, background, format, each present
\* exactly when its option was supplied; saturation 0 is emitted.
C21_EachSuppliedOptionEmitted ==
    built.step = 1 =>
        LET o == built.options
        IN  built.url =
              <<"https://api.beuken.ai/cdn-cgi/image/">>
              \o Join(C21_Param(Supplied(o.saturation), "saturation=", o.saturation)
                      \o C21_Param(Supplied(o.width), "width=", o.width)
                      \o C21_Param(Supplied(o.height), "height=", o.height)
                      \o C21_Param(Supplied(o.fit), "fit=", o.fit)
                      \o C21_Param(Supplied(o.background), "background=", o.background)
                      \o C21_Param(Supplied(o.format), "format=", o.format), <<",">>)
              \o <<"/">> \o built.inputUrl

\* C21 (amended): the same URL shape and order; a numeric option (saturation,
\* width, height) is present exactly when it was supplied, the value 0 included;
\* a string option (fit, background, format) is present exactly when it was
\* supplied with a non-empty string, an empty string being dropped.
C21_NumbersSuppliedStringsNonEmpty ==
    built.step = 1 =>
        LET o == built.options
            NonEmpty(x) == Supplied(x) /\ x.v # <<>>
        IN  built.url =
              <<"https://api.beuken.ai/cdn-cgi/image/">>
              \o Join(C21_Param(Supplied(o.saturation), "saturation=", o.saturation)
                      \o C21_Param(Supplied(o.width), "width=", o.width)
                      \o C21_Param(Supplied(o.height), "height=", o.height)
                      \o C21_Param(NonEmpty(o.fit), "fit=", o.fit)
                      \o C21_Param(NonEmpty(o.background), "background=", o.background)
                      \o C21_Param(NonEmpty(o.format), "format=", o.format), <<",">>)
              \o <<"/">> \o built.inputUrl

C21_Witness ==
    /\ built.step = 1
    /\ built.options = HandlerOptions
    /\ built.inputUrl = PublicUrl(UUID(1) \o <<".jpg">>)
    /\ built.url = <<"https://api.beuken.ai/cdn-cgi/image/", "saturation=", "0", ",",
                     "width=", "1024", ",", "height=", "1024", ",", "fit=", "pad", ",",
                     "background=", "white", ",", "format=", "jpeg", "/",
                     "https://pub-a60a2e7f4821493380ef9f646ab6b33c.r2.dev/", "uuid", "1",
                     ".jpg">>

\* C22: in the success response each entry of the performance breakdown (file
\* processing, AI processing, final operations) is the elapsed time of that stage,
\* and totalTimeMs is the elapsed time of the whole request.
C22_BreakdownIsElapsed ==
    (handler = "createCharm" /\ response.status = 200) =>
        /\ response.totalTimeMs = now - marks.startTime
        /\ response.breakdown = <<marks.aiProcessingStart - marks.fileProcessingStart,
                                  marks.finalOpsStart - marks.aiProcessingStart,
                                  marks.finalOpsEnd - marks.finalOpsStart>>

\* the outputs of invocation i are those its own request and the outcomes of its
\* own calls determine
C23_OwnOutputs(i) ==
    LET p == pair[i]
        past(pcs) == p.pc \notin pcs
    IN  /\ p.req = PairRequests[i]
        /\ past({"formData"}) => p.randomId # 0
        /\ past({"formData", "uploadOriginal"}) =>
              /\ p.uploads[1].filename = UUID(p.randomId) \o <<ImageExt(p.req.image)>>
              /\ p.uploads[1].bytes = <<"original", i>>
              /\ p.originalImageUrl = p.uploads[1].url
        /\ past({"formData", "uploadOriginal", "fetchTransform", "localFallback"}) =>
              p.grayscale1024Base64 =
                 IF p.transform = "ok" THEN "cloudflare-1024" ELSE "original-base64"
        /\ p.visionCall # NoVisionCall =>
              /\ p.visionResult = generateGroqVisionPrompt(p.visionCall).value
              /\ p.nameAndStory.story =
                    IF p.req.story # <<>> THEN JStr(p.req.story) ELSE p.visionResult.story
        /\ \A k \in 1..Len(p.synth) :
              /\ p.synth[k].prompt = ResolvePrompt(p.visionResult.prompt)
              /\ p.synth[k].image = p.grayscale1024Base64
        /\ p.goldImageUrl # NoUrl =>
              p.synth[Len(p.synth)].outcome = "ok" /\ p.goldImageUrl = GoldUrl
        /\ p.silverImageUrl # NoUrl =>
              IF \A k \in 1..Len(p.fetches) : p.fetches[k].bytes = "none"
              THEN p.silverImageUrl = p.goldImageUrl /\ Len(p.uploads) = 1
              ELSE /\ Len(p.uploads) = 2
                   /\ p.uploads[2].filename = SilverFilename(p.silverId)
                   /\ p.uploads[2].bytes = p.fetches[Len(p.fetches)].bytes
                   /\ p.silverImageUrl = p.uploads[2].url
        /\ \A k \in 1..Len(p.fetches) :
              p.fetches[k].url \in {p.goldImageUrl, TransformationUrl(p.goldImageUrl)}
        /\ p.response.status = 200 =>
              /\ p.response.goldImageUrl = p.goldImageUrl
              /\ p.response.silverImageUrl = p.silverImageUrl
              /\ p.response.story = p.nameAndStory.story
        /\ p.response.status = 500 =>
              /\ Len(p.synth) = 2
              /\ \A k \in 1..2 : p.synth[k].outcome = "status"

\* C23: two invocations interleaved at their awaits share no mutable state: the
\* working image, the Description, the gold URL, the silver URL and the response of
\* each depend only on its own request and on the outcomes of its own calls, as
\* when it runs alone; no invocation writes an object of the other.
C23_InvocationsIsolated ==
    /\ \A i \in Inv : C23_OwnOutputs(i)
    /\ \A a, b \in 1..Len(r2calls) : a # b => r2calls[a].filename # r2calls[b].filename
    /\ \A a \in 1..Len(r2calls) :
          \E i \in Inv :
              /\ \E k \in 1..Len(pair[i].uploads) : pair[i].uploads[k] = r2calls[a]
              /\ \A j \in Inv \ {i} :
                    \A k \in 1..Len(pair[j].uploads) :
                        pair[j].uploads[k].filename # r2calls[a].filename
    /\ Len(r2calls) = Len(pair[1].uploads) + Len(pair[2].uploads)

C23_Witness ==
    /\ pair[1].response.status = 200 /\ pair[2].response.status = 200
    /\ pair[1].randomId = 1 /\ pair[2].randomId = 2
    /\ pair[2].silverId = 3 /\ pair[1].silverId = 4
    /\ pair[1].visionCall.kind = "transport" /\ pair[2].visionCall.kind = "content"
    /\ pair[1].grayscale1024Base64 = "cloudflare-1024"
    /\ pair[2].grayscale1024Base64 = "original-base64"
    /\ pair[1].response.story = JStr(TheDefaultStory)
    /\ pair[2].response.story = JStr(<<"my", " ", "story">>)
    /\ pair[1].silverImageUrl # pair[2].silverImageUrl

\* C24: every response the router returns for POST /api/create-jewelry-charm,
\* whatever its status (200, 400 or 500), carries the three CORS headers, and an
\* OPTIONS request is answered with those headers without handleCreateCharm
\* being invoked.
C24_CorsOnEveryCharmResponse ==
    /\ route.invoked <=> (route.method = "POST" /\ route.path = CharmPath
                          /\ route.state \in {"invoked", "returned"})
    /\ (route.state = "returned" /\ route.method = "POST" /\ route.path = CharmPath) =>
          /\ route.status = response.status
          /\ route.status \in {200, 400, 500}
          /\ CorsHeaders \subseteq route.headers
    /\ (route.state = "returned" /\ route.method = "OPTIONS") =>
          /\ CorsHeaders \subseteq route.headers
          /\ response = NoResponse
          /\ calls = <<>>
    /\ route.method = "OPTIONS" => pc \in {"route", "routed"}

C24_Witness ==
    /\ route.state = "returned" /\ route.invoked
    /\ route.status = 500
    /\ response.from = "par:gold"
    /\ CorsHeaders \subseteq route.headers

C25_Failed(k) == retry.ops[k].outcome \in OperationOutcomes \ {"ok"}

C25_Safety ==
    LET n == retry.maxRetries
        d == retry.baseDelay
        calls_ == Len(retry.ops)
    IN  /\ calls_ <= n + 1
        /\ \A k \in 1..calls_ : retry.ops[k].attempt = k - 1
        /\ \A k \in 1..(calls_ - 1) :
              /\ C25_Failed(k)
              /\ k - 1 < n
              /\ retry.waits[k] = d * Pow2(k - 1)
              /\ retry.ops[k + 1].startedAt >= retry.ops[k].endedAt + d * Pow2(k - 1)
        /\ Len(retry.waits) \in {calls_ - 1, calls_}
        /\ Len(retry.waits) = calls_ => retry.state = "sleeping" /\ calls_ <= n
        /\ retry.state = "returned" =>
              /\ retry.ops[calls_].outcome = "ok"
              /\ retry.result = <<"value", calls_ - 1>>
              /\ retry.endedAt = retry.ops[calls_].endedAt
        /\ retry.state = "threw" =>
              /\ calls_ = n + 1
              /\ C25_Failed(calls_)
              /\ Len(retry.waits) = n
              /\ retry.error = <<retry.ops[calls_].outcome, n>>
              /\ retry.endedAt = retry.ops[calls_].endedAt
        /\ (retry.state = "sleeping" /\ C25_Failed(calls_)) => calls_ - 1 < n

\* C25: for every maxRetries n and base delay d, retryWithBackoff calls the
\* operation at most n + 1 times and terminates; it returns the result of the
\* first successful attempt and attempts nothing after it; after failed attempt
\* k < n, whatever the kind of the error, it waits d * 2^k before attempt k + 1;
\* after failed attempt n it throws at once, with no wait, the error of that
\* last attempt.
C25_BoundedRetries == [](C25_Safety) /\ <>(retry.state \in {"returned", "threw"})

C25_Witness ==
    /\ retry.state = "threw"
    /\ retry.maxRetries = 2 /\ retry.baseDelay = DefaultBaseDelay
    /\ Len(retry.ops) = 3
    /\ retry.ops[1].outcome = "status"
    /\ retry.ops[2].outcome = "abort"
    /\ retry.ops[3].outcome = "malformed"
    /\ retry.waits = <<1000, 2000>>
    /\ retry.error = <<"malformed", 2>>

\* C26: each synthesis attempt is bounded by its own 90-second abort timer for
\* its whole duration, from issuing the request until the gold URL is extracted or
\* the attempt fails, and the vision call likewise by its 15-second timer; each
\* attempt has a fresh controller, its timer is disarmed on the success and on
\* the failure path before the attempt ends, a timer armed for attempt 1 never
\* aborts attempt 2, and no timer is left armed after the stage returns.
C26_AttemptBoundedByOwnTimer ==
    /\ \A k \in 1..Len(abort.attempts) :
          LET at == abort.attempts[k]
              end == IF at.outcome = "pending" THEN now ELSE at.endedAt
          IN  /\ end - at.issuedAt <= abort.limit
              /\ at.controller = k /\ at.timer = k
              /\ abort.timers[k].controller = k
              /\ at.outcome # "pending" => ~abort.timers[k].armed
              /\ abort.controllers[k].aborted => abort.timers[k].fired /\ at.outcome = "timeout"
    /\ abort.state \in {"returned", "threw", "sleeping"} =>
          \A i \in 1..Len(abort.timers) : ~abort.timers[i].armed

C27_Count(label) == Cardinality({i \in DOMAIN calls : calls[i] = label})

\* C27: the orchestrator retries nothing itself: in one request the vision service
\* is called at most once, the transform URL of the Preprocessor is fetched at most
\* once, the synthesis service is called at most twice, each of the three silver
\* byte sources is fetched at most once, and the storage put is issued at most
\* twice, once for the original and once for the silver.
C27_NoRetriesOfItsOwn ==
    /\ C27_Count("vision") <= 1
    /\ C27_Count("fetch:transform") <= 1
    /\ C27_Count("synthesis") <= 2
    /\ C27_Count("synthesis") = Len(synth)
    /\ \A k \in 1..3 : C27_Count("fetch:silver" \o ToString(k)) <= 1
    /\ Len(fetches) <= 3
    /\ C27_Count("put:original") <= 1
    /\ C27_Count("put:silver") <= 1
    /\ Len(SelectSeq(r2calls, LAMBDA c : c.put # "none")) <= 2

C27_Witness ==
    /\ pc = "done" /\ response.status = 200
    /\ C27_Count("vision") = 1
    /\ C27_Count("fetch:transform") = 1
    /\ C27_Count("synthesis") = 2
    /\ \A k \in 1..3 : C27_Count("fetch:silver" \o ToString(k)) = 1
    /\ C27_Count("put:original") = 1
    /\ C27_Count("put:silver") = 1
    /\ r2calls[2].put = "failed"

\* C28: convertToGreyscale returns exactly the gold URL it was given if and only
\* if all three fetches failed, and then it has issued no storage write; in every
\* other case it returns the URL uploadImageToR2 produced for the -silver filename.
C28_GoldUrlIffAllFetchesFailed ==
    silverImageUrl # NoUrl =>
        /\ Len(fetches) >= 1
        /\ (silverImageUrl = goldImageUrl) <=> AllFetchesFailed
        /\ AllFetchesFailed =>
              /\ SilverCalls = <<>>
              /\ C27_Count("put:silver") = 0
        /\ ~AllFetchesFailed =>
              /\ Len(SilverCalls) = 1
              /\ SilverCalls[1].bytes = fetches[Len(fetches)].bytes
              /\ silverImageUrl = SilverCalls[1].url
              /\ silverImageUrl \in {PublicUrl(SilverCalls[1].filename),
                                     PlaceholderUrl(SilverCalls[1].filename)}

C28_Witness ==
    /\ handler = "createCharm"
    /\ silverImageUrl # NoUrl
    /\ ~AllFetchesFailed
    /\ Len(fetches) = 3
    /\ SilverCalls[1].put = "failed"
    /\ silverImageUrl = PlaceholderUrl(SilverCalls[1].filename)

C29_AfterPreprocessor ==
    pc \notin {"formData", "arrayBuffer", "uploadOriginal", "fetchTransform", "localFallback"}
    /\ transform # "none"

\* C29: in the Preprocessor the remote transform is tried first, and
\* resizeAndGrayscaleTo1024 is invoked if and only if the fetch of the transform
\* URL failed (rejected, or answered non-2xx); when the fetch succeeds its bytes
\* are the working image; the recorded input kind is
\* local_fallback_grayscale_1024_pad_white_jpeg exactly when the fallback ran,
\* and cloudflare_grayscale_1024_pad_white_jpeg otherwise.
C29_RemoteFirstLocalOnFailure ==
    /\ (pc = "localFallback" \/ local.step # "idle") =>
          /\ transform \in {"status", "transport"}
          /\ C27_Count("fetch:transform") = 1
    /\ pc = "localFallback" => local.step = "idle"
    /\ C29_AfterPreprocessor =>
          /\ local.step = "returned" <=> transform \in {"status", "transport"}
          /\ transform = "ok" =>
                /\ local = NoLocal
                /\ grayscale1024Base64 = "cloudflare-1024"
          /\ local.step = "returned" => grayscale1024Base64 = local.base64
          /\ visionInputKind = IF local.step = "returned"
                               THEN "local_fallback_grayscale_1024_pad_white_jpeg"
                               ELSE "cloudflare_grayscale_1024_pad_white_jpeg"

C29_Witness ==
    /\ C29_AfterPreprocessor
    /\ transform = "status"
    /\ local.step = "returned"
    /\ visionInputKind = "local_fallback_grayscale_1024_pad_white_jpeg"
    /\ response.status = 200

\* indexOf and lastIndexOf found both delimiters, the opening one first
C30_Delimited(raw, open, close) ==
    /\ IndexOf(raw, open) # 0
    /\ LastIndexOf(raw, close) # 0
    /\ LastIndexOf(raw, close) > IndexOf(raw, open)

C30_Slice(raw, open, close) == SubSeq(raw, IndexOf(raw, open), LastIndexOf(raw, close))

\* C30: parseJsonFromContent tries four strategies in a fixed order, the trimmed
\* text, the text without its code fences, the substring from the first opening
\* brace to the last closing brace, the substring from the first opening bracket
\* to the last closing bracket; it returns the value of the first one that parses,
\* strategy k being tried only if strategies 1..k-1 failed; a substring strategy
\* is skipped when its delimiters are absent or out of order; it throws only when
\* all four fail.
C30_FirstStrategyThatParses ==
    parse.step = 4 =>
        LET raw == Trim(parse.content)
            v1 == JSONParse(raw)
            v2 == JSONParse(WithoutFences(raw))
            v3 == IF C30_Delimited(raw, "{", "}")
                  THEN JSONParse(C30_Slice(raw, "{", "}")) ELSE NotParsed
            v4 == IF C30_Delimited(raw, "[", "]")
                  THEN JSONParse(C30_Slice(raw, "[", "]")) ELSE NotParsed
        IN  /\ v1.ok => parse.strategy = 1 /\ parse.result = v1
            /\ (~v1.ok /\ v2.ok) => parse.strategy = 2 /\ parse.result = v2
            /\ (~v1.ok /\ ~v2.ok /\ v3.ok) => parse.strategy = 3 /\ parse.result = v3
            /\ (~v1.ok /\ ~v2.ok /\ ~v3.ok /\ v4.ok) => parse.strategy = 4 /\ parse.result = v4
            /\ ~parse.result.ok <=> (~v1.ok /\ ~v2.ok /\ ~v3.ok /\ ~v4.ok)
            /\ ~parse.result.ok <=> parse.strategy = 0
            /\ (parse.strategy = 3 \/ v3.ok) => C30_Delimited(raw, "{", "}")
            /\ (parse.strategy = 4 \/ v4.ok) => C30_Delimited(raw, "[", "]")

C30_Witness ==
    /\ parse.step = 4
    /\ parse.content = <<" ", "[", "42", "]", " ", "{", "name:Lion", "}", " ", "Here", " ">>
    /\ parse.strategy = 3
    /\ parse.result.kind = "object"
    /\ ArraySubstring(Trim(parse.content)).ok

C31_Count(e) == Cardinality({i \in DOMAIN events : events[i] = e})

\* C31: the working image is produced once per request and not modified after:
\* the value passed to the vision call and the value passed to every synthesis
\* attempt are the same, and the instruction the vision stage returned is the
\* instruction handed to the synthesis stage, unchanged.
C31_WorkingImageImmutable ==
    /\ C31_Count("ret:preprocess") <= 1
    /\ passed.vision = "none" <=> C31_Count("ret:preprocess") = 0
    /\ passed.vision # "none" =>
          /\ passed.vision = grayscale1024Base64
          /\ passed.vision = IF transform = "ok" THEN "cloudflare-1024" ELSE local.base64
    /\ passed.goldImage # "none" =>
          /\ passed.goldImage = passed.vision
          /\ passed.goldPrompt = visionResult.prompt
    /\ \A k \in 1..Len(synth) :
          /\ synth[k].image = passed.vision
          /\ passed.goldImage # "none"
    /\ C27_Count("synthesis") >= 1 => passed.goldImage # "none"

C31_Witness ==
    /\ Len(synth) = 2
    /\ transform = "transport"
    /\ passed.vision = "local-1024"
    /\ synth[1].image = "local-1024" /\ synth[2].image = "local-1024"
    /\ passed.goldPrompt = JStr(<<" ", " ">>)
    /\ visionResult.prompt = JStr(<<" ", " ">>)
    /\ response.status = 200

\* C32: when generateGoldImage fails terminally no later stage of the request
\* runs: convertToGreyscale is not called, no silver object is written, no product
\* is created and no row is saved; of the side effects of the request only the
\* earlier upload of the original image remains.
C32_NothingAfterGoldFailure ==
    C31_Count("fail:synthesis") >= 1 =>
        /\ pc = "done"
        /\ response.status = 500 /\ response.from = "gold"
        /\ inflight = {}
        /\ goldImageUrl = NoUrl /\ silverImageUrl = NoUrl
        /\ C31_Count("call:silver") = 0
        /\ fetches = <<>>
        /\ SilverCalls = <<>>
        /\ \A l \in {"fetch:silver1", "fetch:silver2", "fetch:silver3", "put:silver",
                     "shopify", "supabase"} : C27_Count(l) = 0
        /\ Len(r2calls) = 1
        /\ r2calls[1].type = "original-image"
        /\ C27_Count("put:original") = IF bucket THEN 1 ELSE 0

C32_Witness ==
    /\ C31_Count("fail:synthesis") = 1
    /\ Len(synth) = 2
    /\ synth[1].outcome = "timeout" /\ synth[2].outcome = "status"
    /\ r2calls[1].put = "ok"
    /\ response.status = 500

\* C33: provided every external call settles, every invocation of
\* handleCreateCharm eventually returns exactly one Response, a success, a 400 or
\* a 500, and never throws to the router, whose catch branch is never taken.
C33_AlwaysOneResponse ==
    /\ <>(route.state = "returned")
    /\ [](pc # "threw" /\ ~route.caught)
    /\ [](route.state = "returned" =>
            /\ pc = "done"
            /\ response.status \in {200, 400, 500}
            /\ route.status = response.status)
    /\ [](pc = "done" <=> response # NoResponse)
    /\ [][response # NoResponse => response' = response]_vars

C33_Witness ==
    /\ route.state = "returned" /\ ~route.caught
    /\ handler = "createCharm"
    /\ response.status = 500
    /\ response.from = "shopify"
    /\ route.status = 500

C34_Ok(k) == Len(shop.calls) >= k /\ shop.calls[k].outcome = "ok"
C34_Failed(k) == Len(shop.calls) >= k /\ shop.calls[k].outcome \in ShopifyFailures

\* C34: createShopifyProduct issues its calls in the order create product (POST),
\* assign variant images (PUT), add to collection (POST); the collection call is
\* issued if and only if publicGallery is true and both earlier calls succeeded; a
\* failure of the collection call does not change the product data returned; a
\* failure of either earlier call throws and no later call is made.
C34_ShopifyCallOrder ==
    /\ Len(shop.calls) \in 1..3
    /\ shop.calls[1].kind = "create" /\ shop.calls[1].method = "POST"
    /\ Len(shop.calls) >= 2 =>
          /\ shop.calls[2].kind = "assign" /\ shop.calls[2].method = "PUT"
          /\ C34_Ok(1)
    /\ Len(shop.calls) = 3 =>
          shop.calls[3].kind = "collect" /\ shop.calls[3].method = "POST"
    /\ Len(shop.calls) = 3 <=> (shop.publicGallery /\ C34_Ok(1) /\ C34_Ok(2))
    /\ shop.state = "returned" =>
          /\ C34_Ok(1) /\ C34_Ok(2)
          /\ shop.result.productId = 7 /\ shop.result.handle = "lion-charm"
          /\ shop.result.url = <<"https://shop.example", "/products/", "lion-charm">>
    /\ C34_Failed(1) => shop.state = "threw" /\ Len(shop.calls) = 1
    /\ C34_Failed(2) => shop.state = "threw" /\ Len(shop.calls) = 2
    /\ Len(shop.calls) = 3 => shop.state \in {"collect", "returned"}
    /\ shop.state = "threw" =>
          \/ C34_Failed(Len(shop.calls))
          \/ Len(shop.calls) = 1 /\ C34_Ok(1) /\ ~(shop.body.product /\ shop.body.variants)

C34_Witness ==
    /\ shop.state = "returned"
    /\ shop.publicGallery
    /\ shop.calls[3].outcome = "status"
    /\ shop.storeUrl = <<"https://shop.example", "/admin">>
    /\ shop.images.silver = {"Sterling Silver"}
    /\ shop.images.gold = {"14K Gold", "Brass & Resin"}
    /\ shop.result = ProductData(shop.storeUrl)

C36_Grey(p) == p[1] = p[2] /\ p[2] = p[3]

\* C36: the greyscale step of the local fallback maps a pixel with r = g = b = v to
\* (v, v, v) with its alpha, so a second pass would change nothing, and the opaque
\* white padding (255, 255, 255, 255) is opaque white after the step.
C36_GreyscaleIdempotent ==
    local.step \in {"grey", "returned"} /\ local.thrownAt = "none" =>
        /\ C36_Grey(local.before) => local.after = local.before
        /\ ~local.covered => local.before = White /\ local.after = White
        /\ Greyscale(local.after) = local.after

C36_Witness ==
    /\ local.step = "grey"
    /\ ~local.covered
    /\ local.before = <<255, 255, 255, 255>>
    /\ local.after = <<255, 255, 255, 255>>

\* C35: for every source size of at least 1 by 1 and every destination size, the
\* four sample positions bilinearResize reads lie inside the source image,
\* 0 <= x0 <= x1 <= srcWidth - 1 and 0 <= y0 <= y1 <= srcHeight - 1 with the second
\* sample clamped to the last column and row, and when the destination size equals
\* the source size the output equals the input pixel for pixel.
C35_SamplesInsideAndIdentity ==
    /\ resize.sampled =>
          /\ 0 <= resize.sample.x0 /\ resize.sample.x0 <= resize.sample.x1
          /\ resize.sample.x1 <= resize.srcWidth - 1
          /\ 0 <= resize.sample.y0 /\ resize.sample.y0 <= resize.sample.y1
          /\ resize.sample.y1 <= resize.srcHeight - 1
          /\ resize.sample.x1 \in {resize.sample.x0 + 1, resize.srcWidth - 1}
          /\ resize.sample.y1 \in {resize.sample.y0 + 1, resize.srcHeight - 1}
    /\ resize.dstWidth = resize.srcWidth /\ resize.dstHeight = resize.srcHeight =>
          /\ resize.sampled =>
                /\ resize.lastPixel = SrcData(resize.pattern, resize.lastX, resize.lastY)
                /\ resize.written = resize.lastY * resize.dstWidth + resize.lastX + 1
                /\ resize.sample = [x0 |-> resize.lastX,
                                    x1 |-> SecondSample(resize.lastX, resize.srcWidth),
                                    y0 |-> resize.lastY,
                                    y1 |-> SecondSample(resize.lastY, resize.srcHeight)]
          /\ resize.step = "returned" =>
                resize.written = resize.srcWidth * resize.srcHeight

C35_Witness ==
    /\ resize.step = "returned"
    /\ resize.pattern = "ramp"
    /\ resize.srcWidth = 3 /\ resize.srcHeight = 2
    /\ resize.dstWidth = 3 /\ resize.dstHeight = 2
    /\ resize.sample = [x0 |-> 2, x1 |-> 2, y0 |-> 1, y1 |-> 1]
    /\ resize.written = 6
    /\ resize.lastX = 2 /\ resize.lastY = 1
    /\ resize.lastPixel = <<110, 145, 90, 255>>

====
